---- MODULE Spec2Model ----
(***************************************************************************)
(* A model of node-disks: the path resolution of the filesystem disks      *)
(* (FSDisk / LocalDisk getFullPath), the disk operations of FSDisk over an *)
(* AsyncFSModule, the directory listing of FSDisk and LocalDisk, and the   *)
(* DiskManager's alias resolution and disk registry.                       *)
(*                                                                         *)
(* Strings that are paths are modelled as the sequence of their segments   *)
(* as split on '/': "/a/b" is <<"", "a", "b">>, "a//b" is <<"a", "", "b">>,*)
(* "/" is <<"", "">>, the empty string is <<"">> and null is <<>>.         *)
(***************************************************************************)
EXTENDS Integers, Sequences, FiniteSets, TLC

VARIABLES
    pathIn,     \* SpecPath: the virtual path handed to getFullPath
    rootIn,     \* SpecPath: the disk's root path (getRootPath())
    pathOut,    \* SpecPath: the last result of getFullPath
    config,     \* DiskManager.config
    disks,      \* DiskManager.disks, the registry
    made,       \* every Disk instance constructed so far, in order
    calls,      \* the getDisk calls made so far and what each returned
    lastCall,   \* the last getDisk call: its arguments and what it returned
    resolving,        \* SpecResolve: one call of resolveDiskSpecification
    bucket,     \* the S3 bucket behind an S3Disk: key -> body
    s3last,     \* the last S3Disk operation and its outcome
    s3ops,      \* number of S3Disk operations performed
    s3cfg,      \* the S3Disk's config: root and pagingLimit
    paging,     \* SpecPaging: one S3Disk.list() call, request by request
    mem,        \* SpecMemory: the MemoryDisks of one manager and their volumes
    callers,    \* SpecCallers: the callers of getDisk and their calls
    pipe,       \* SpecPipe: one pipeStreams() call
    tmp,        \* SpecTemp: one withTempFile() call
    vol,        \* the volume behind an FSDisk: absolute path -> node
    last,       \* the last FSDisk operation and its outcome
    ops,        \* number of FSDisk operations performed
    wstream,    \* the write stream handed out by createWriteStream, if any
    lst         \* one list() call in progress: entries, pending stats, result

vars == <<pathIn, rootIn, pathOut, config, disks, made, calls, lastCall, resolving,
          bucket, s3last, s3ops, s3cfg, paging, mem, callers, pipe, tmp,
          vol, last, ops, wstream, lst>>

pathVars == <<pathIn, rootIn, pathOut>>
mgrVars == <<config, disks, made, calls, lastCall>>
resVars == <<resolving>>
s3Vars == <<bucket, s3last, s3ops, s3cfg>>
auxVars == <<paging, mem, callers, pipe, tmp>>
fsVars == <<rootIn, vol, last, ops, wstream>>
lstVars == <<lst>>

(***************************************************************************)
(* Bounds of the model.                                                    *)
(***************************************************************************)
MaxSegs == 4        \* segments of a virtual path in SpecPath
MaxMade == 4        \* Disk instances one manager constructs in one behaviour
MaxOps == 2         \* FSDisk operations in one behaviour
MaxEntries == 3     \* entries of a listed directory
MaxChain == 11      \* alias hops of a chain in SpecResolve
MaxS3Ops == 1       \* S3Disk operations in one behaviour
MaxPage == 3        \* the largest pagingLimit of an S3Disk
MaxRequests == 3    \* listObjectsV2 requests of one list() call in SpecPaging
MaxDisks == 2       \* MemoryDisk instances in SpecMemory
MaxCallers == 2     \* callers of getDisk in SpecCallers
MaxEvents == 4      \* events the two streams of a pipe emit
MaxChunks == 2      \* chunks that go through a pipe
MaxTempCalls == 3   \* calls of withTempFile in one behaviour
MaxMemOps == 2      \* writes, createWriteStreams and deletes of the memory disks

NULL == <<>>
EMPTY == <<"">>
SEP == <<"", "">>   \* Disk.SEP, the string "/"

Names == {"a", "b", "c"}
Segments == Names \cup {".", "..", ""}

RECURSIVE SeqsUpTo(_, _)
SeqsUpTo(S, n) ==
    IF n = 0 THEN {<<>>}
    ELSE LET shorter == SeqsUpTo(S, n - 1)
         IN  shorter \cup {Append(s, x) : s \in shorter, x \in S}

IsPrefix(p, q) == Len(p) <= Len(q) /\ SubSeq(q, 1, Len(p)) = p

(***************************************************************************)
(* node's path module (posix flavour), on segment sequences.               *)
(***************************************************************************)
\* String concatenation a + b. A name is atomic: where two strings meet, one
\* of the two touching segments is empty in every use the code makes of it.
StrCat(a, b) ==
    IF a = <<>> THEN b
    ELSE IF b = <<>> THEN a
    ELSE LET x == a[Len(a)]
             y == b[1]
         IN  SubSeq(a, 1, Len(a) - 1) \o <<IF x = "" THEN y ELSE x>> \o Tail(b)

isAbsolute(p) == Len(p) >= 2 /\ p[1] = ""

RECURSIVE normalizeString(_, _, _)
normalizeString(segs, allowAboveRoot, res) ==
    IF segs = <<>> THEN res
    ELSE LET s == Head(segs)
             rest == Tail(segs)
         IN  IF s = "" \/ s = "." THEN normalizeString(rest, allowAboveRoot, res)
             ELSE IF s = ".."
                  THEN IF Len(res) > 0 /\ res[Len(res)] # ".."
                       THEN normalizeString(rest, allowAboveRoot,
                                            SubSeq(res, 1, Len(res) - 1))
                       ELSE IF allowAboveRoot
                            THEN normalizeString(rest, allowAboveRoot,
                                                 Append(res, ".."))
                            ELSE normalizeString(rest, allowAboveRoot, res)
                  ELSE normalizeString(rest, allowAboveRoot, Append(res, s))

\* The process's working directory, used by resolve only when no argument is
\* absolute.
CWD == <<"", "cwd">>

\* path.resolve(from, to): the arguments are taken right to left until one is
\* absolute, joined with '/', and normalised without leaving the root.
resolve(from, to) ==
    LET r1 == StrCat(to, SEP)
        r2 == IF isAbsolute(to) THEN r1 ELSE StrCat(StrCat(from, SEP), r1)
        r3 == IF isAbsolute(to) \/ isAbsolute(from) THEN r2
              ELSE StrCat(StrCat(CWD, SEP), r2)
        n == normalizeString(r3, FALSE, <<>>)
    IN  IF n = <<>> THEN SEP ELSE <<"">> \o n

\* path.dirname of an absolute, normalised path.
dirname(p) ==
    IF Len(p) <= 2 THEN SEP ELSE SubSeq(p, 1, Len(p) - 1)

\* The names of an absolute path, root first ("/" has none).
NamesOf(p) == SelectSeq(p, LAMBDA s : s # "")

(***************************************************************************)
(* FSDisk.getFullPath / LocalDisk.getFullPath                              *)
(***************************************************************************)
\* A plausible bug: the virtual path resolved against the root directly.
getFullPathUnchrooted(rootPath, pathOnDisk) ==
    IF pathOnDisk # NULL /\ pathOnDisk # EMPTY
    THEN resolve(rootPath, pathOnDisk)
    ELSE rootPath

getFullPath(rootPath, pathOnDisk) ==
    IF pathOnDisk # NULL /\ pathOnDisk # EMPTY
    THEN LET absolutePathOnDisk == resolve(SEP, pathOnDisk)
         IN  resolve(rootPath, StrCat(<<".">>, absolutePathOnDisk))
    ELSE rootPath

\* Root paths as getRootPath returns them: "/" (MemoryDisk) and resolved
\* absolute directories (LocalDisk).
RootPaths == {SEP, <<"", "r">>, <<"", "r", "s">>}

VirtualPaths == (SeqsUpTo(Segments, MaxSegs) \ {<<>>}) \cup {NULL}

NOPATH == <<"?">>

\* A disk (its root) and a virtual path a caller is about to pass.
PathInit ==
    /\ pathIn \in VirtualPaths
    /\ rootIn \in RootPaths
    /\ pathOut = NOPATH

\* The call of getFullPath.
ResolvePath ==
    /\ pathOut = NOPATH
    /\ pathOut' = getFullPath(rootIn, pathIn)
    /\ UNCHANGED <<pathIn, rootIn, mgrVars, vol, last, ops, wstream, lstVars, resVars, s3Vars, auxVars>>

(***************************************************************************)
(* DiskManager                                                             *)
(***************************************************************************)
DiskNames == {"default", "foo", "bar"}
RequestNames == DiskNames \cup {"nope"}     \* "nope" is in no config

\* DiskDriver, and two values a specification can carry that are no driver:
\* an unknown tag and none at all (driver = null).
DiskDriver == {"memory", "local", "s3"}
NODRIVER == "(none)"
DriverTags == DiskDriver \cup {"ftp", NODRIVER}

\* A config value is an alias (a string naming another disk) or a
\* specification {driver, config}.
Alias(to) == [kind |-> "alias", to |-> to, driver |-> NODRIVER]
Specification(driver) == [kind |-> "spec", to |-> "", driver |-> driver]
ConfigValues ==
    {Alias(n) : n \in RequestNames} \cup {Specification(d) : d \in DriverTags}
Configs == [DiskNames -> ConfigValues]

\* GetDiskOptions.s3Client: absent, or a pre-built client.
NOCLIENT == "(default client)"
Clients == {NOCLIENT, "clientA"}

DefaultMaxLookup == 10

NOSPEC == [name |-> "", found |-> FALSE, driver |-> NODRIVER]

\* A plausible bug: the budget checked with >=, one more lookup than allowed.
RECURSIVE resolveDiskSpecificationInclusive(_, _, _)
resolveDiskSpecificationInclusive(cfg, name, maxLookup) ==
    IF name \in DOMAIN cfg /\ maxLookup >= 0
    THEN LET aliasOrDiskSpec == cfg[name]
         IN  IF aliasOrDiskSpec.kind = "alias"
             THEN resolveDiskSpecificationInclusive(cfg, aliasOrDiskSpec.to, maxLookup - 1)
             ELSE [name |-> name, found |-> TRUE, driver |-> aliasOrDiskSpec.driver]
    ELSE NOSPEC

\* A plausible bug: when the budget runs out on an alias, the alias itself
\* handed back as if it were a specification.
RECURSIVE resolveDiskSpecificationStopsAtAlias(_, _, _)
resolveDiskSpecificationStopsAtAlias(cfg, name, maxLookup) ==
    IF name \in DOMAIN cfg
    THEN LET aliasOrDiskSpec == cfg[name]
         IN  IF aliasOrDiskSpec.kind = "alias" /\ maxLookup > 1
             THEN resolveDiskSpecificationStopsAtAlias(cfg, aliasOrDiskSpec.to, maxLookup - 1)
             ELSE [name |-> name, found |-> TRUE, driver |-> aliasOrDiskSpec.driver]
    ELSE NOSPEC

\* DiskManager.resolveDiskSpecification
RECURSIVE resolveDiskSpecification(_, _, _)
resolveDiskSpecification(cfg, name, maxLookup) ==
    IF name \in DOMAIN cfg /\ maxLookup > 0
    THEN LET aliasOrDiskSpec == cfg[name]
         IN  IF aliasOrDiskSpec.kind = "alias"
             THEN resolveDiskSpecification(cfg, aliasOrDiskSpec.to, maxLookup - 1)
             ELSE [name |-> name, found |-> TRUE, driver |-> aliasOrDiskSpec.driver]
    ELSE NOSPEC

\* The number of calls of resolveDiskSpecification that one call of it makes,
\* itself included.
RECURSIVE resolveDiskSpecificationCalls(_, _, _)
resolveDiskSpecificationCalls(cfg, name, maxLookup) ==
    IF name \in DOMAIN cfg /\ maxLookup > 0
    THEN IF cfg[name].kind = "alias"
         THEN 1 + resolveDiskSpecificationCalls(cfg, cfg[name].to, maxLookup - 1)
         ELSE 1
    ELSE 1

\* A plausible bug: the registry left as it was, so nothing is ever cached.
registerDiskNowhere(reg, name, disk) == reg

\* registerDisk: this.disks[name] = disk.
registerDisk(reg, name, disk) ==
    [k \in DOMAIN reg \cup {name} |-> IF k = name THEN disk ELSE reg[k]]

\* A plausible bug: the disk named after the name it was requested by.
newDiskNamedAsRequested(id, requested, resolvedName, driver, s3Client) ==
    [id |-> id, name |-> requested, driver |-> driver,
     client |-> IF driver = "s3" THEN s3Client ELSE NOCLIENT]

\* new LocalDisk / MemoryDisk / S3Disk(diskConfig, resolvedName[, s3Client]):
\* a fresh object (id), named resolvedName; only an S3Disk takes the client.
newDisk(id, requested, resolvedName, driver, s3Client) ==
    [id |-> id, name |-> resolvedName, driver |-> driver,
     client |-> IF driver = "s3" THEN s3Client ELSE NOCLIENT]

\* A plausible bug: the name registered before the driver is looked at.
getDiskOutcomeRegistersFirst(cfg, reg, mk, name, s3Client) ==
    LET namedDiskSpec == resolveDiskSpecification(cfg, name, DefaultMaxLookup)
        resolvedName == namedDiskSpec.name
        driver == namedDiskSpec.driver
        disk == newDisk(Len(mk) + 1, name, resolvedName, driver, s3Client)
    IN  IF namedDiskSpec.found
        THEN IF resolvedName \in DOMAIN reg
             THEN [reg |-> reg, made |-> mk, error |-> "", errName |-> "",
                   id |-> reg[resolvedName]]
             ELSE IF driver \in DiskDriver
                  THEN [reg |-> registerDisk(reg, resolvedName, disk.id),
                        made |-> Append(mk, disk), error |-> "", errName |-> "",
                        id |-> disk.id]
                  ELSE [reg |-> registerDisk(reg, resolvedName, disk.id),
                        made |-> Append(mk, disk), error |-> "BadDriver",
                        errName |-> resolvedName, id |-> 0]
        ELSE [reg |-> reg, made |-> mk, error |-> "DiskNotFound", errName |-> name,
              id |-> 0]

\* A plausible bug: a cached S3Disk given the client of the later call
\* (setS3Client).
getDiskOutcomeOptionsLastWin(cfg, reg, mk, name, s3Client) ==
    LET namedDiskSpec == resolveDiskSpecification(cfg, name, DefaultMaxLookup)
        resolvedName == namedDiskSpec.name
        driver == namedDiskSpec.driver
        disk == newDisk(Len(mk) + 1, name, resolvedName, driver, s3Client)
    IN  IF namedDiskSpec.found
        THEN IF resolvedName \in DOMAIN reg
             THEN [reg |-> reg,
                   made |-> IF driver = "s3" /\ s3Client # NOCLIENT
                            THEN [mk EXCEPT ![reg[resolvedName]].client = s3Client]
                            ELSE mk,
                   error |-> "", errName |-> "", id |-> reg[resolvedName]]
             ELSE IF driver \in DiskDriver
                  THEN [reg |-> registerDisk(reg, resolvedName, disk.id),
                        made |-> Append(mk, disk), error |-> "", errName |-> "",
                        id |-> disk.id]
                  ELSE [reg |-> reg, made |-> mk, error |-> "BadDriver",
                        errName |-> resolvedName, id |-> 0]
        ELSE [reg |-> reg, made |-> mk, error |-> "DiskNotFound", errName |-> name,
              id |-> 0]

\* A plausible bug: the registry not looked at, a disk constructed and
\* registered by every call.
getDiskOutcomeUncached(cfg, reg, mk, name, s3Client) ==
    LET namedDiskSpec == resolveDiskSpecification(cfg, name, DefaultMaxLookup)
        resolvedName == namedDiskSpec.name
        driver == namedDiskSpec.driver
        disk == newDisk(Len(mk) + 1, name, resolvedName, driver, s3Client)
    IN  IF namedDiskSpec.found
        THEN IF driver \in DiskDriver
             THEN [reg |-> registerDisk(reg, resolvedName, disk.id),
                   made |-> Append(mk, disk), error |-> "", errName |-> "",
                   id |-> disk.id]
             ELSE [reg |-> reg, made |-> mk, error |-> "BadDriver",
                   errName |-> resolvedName, id |-> 0]
        ELSE [reg |-> reg, made |-> mk, error |-> "DiskNotFound", errName |-> name,
              id |-> 0]

\* The outcome of getDisk(name, {s3Client}) on a manager whose registry is reg
\* and which has constructed the disks of mk: the registry and the disks
\* afterwards, and what the call returned (a disk's id) or threw.
getDiskOutcome(cfg, reg, mk, name, s3Client) ==
    LET namedDiskSpec == resolveDiskSpecification(cfg, name, DefaultMaxLookup)
        resolvedName == namedDiskSpec.name
        driver == namedDiskSpec.driver
        disk == newDisk(Len(mk) + 1, name, resolvedName, driver, s3Client)
    IN  IF namedDiskSpec.found
        THEN IF resolvedName \in DOMAIN reg
             THEN [reg |-> reg, made |-> mk, error |-> "", errName |-> "",
                   id |-> reg[resolvedName]]
             ELSE IF driver \in DiskDriver
                  THEN [reg |-> registerDisk(reg, resolvedName, disk.id),
                        made |-> Append(mk, disk), error |-> "", errName |-> "",
                        id |-> disk.id]
                  ELSE [reg |-> reg, made |-> mk, error |-> "BadDriver",
                        errName |-> resolvedName, id |-> 0]
        ELSE [reg |-> reg, made |-> mk, error |-> "DiskNotFound", errName |-> name,
              id |-> 0]

EmptyRegistry == [k \in {} |-> 0]

NOCALL == [name |-> "", client |-> NOCLIENT, error |-> "", errName |-> "", id |-> 0]

MgrInit ==
    /\ config \in Configs
    /\ disks = EmptyRegistry
    /\ made = <<>>
    /\ calls = {}
    /\ lastCall = NOCALL

\* getDisk(name, options), one synchronous call.
GetDisk ==
    \E name \in RequestNames, s3Client \in Clients :
        \E out \in {getDiskOutcome(config, disks, made, name, s3Client)} :
            /\ Len(out.made) <= MaxMade
            /\ disks' = out.reg
            /\ made' = out.made
            /\ calls' = calls \cup {[name |-> name, error |-> out.error,
                                     errName |-> out.errName, id |-> out.id]}
            /\ lastCall' = [name |-> name, client |-> s3Client, error |-> out.error,
                            errName |-> out.errName, id |-> out.id]
            /\ UNCHANGED <<config, pathVars, vol, last, ops, wstream, lstVars, resVars, s3Vars, auxVars>>

(***************************************************************************)
(* resolveDiskSpecification on its own: one call on a config that is a     *)
(* chain of aliases n0 -> n1 -> ... -> n_len, whose last name holds a      *)
(* specification, is absent from the config, or is an alias of n0.         *)
(***************************************************************************)
ChainNames ==
    <<"n0", "n1", "n2", "n3", "n4", "n5", "n6", "n7", "n8", "n9", "n10", "n11",
      "n12", "n13">>
ChainName(i) == ChainNames[i + 1]
ChainEnds == {"spec", "dangling", "cycle"}

ChainConfig(len, end) ==
    LET held == IF end = "dangling" THEN 0..(len - 1) ELSE 0..len
    IN  [n \in {ChainName(i) : i \in held} |->
            LET i == CHOOSE j \in held : ChainName(j) = n
            IN  IF i < len THEN Alias(ChainName(i + 1))
                ELSE IF end = "spec" THEN Specification("memory")
                ELSE Alias(ChainName(0))]

NORES == [len |-> 0, end |-> "spec", start |-> 0, maxLookup |-> 0, done |-> FALSE,
          out |-> NOSPEC]

ResInit ==
    \E len \in 0..MaxChain, end \in ChainEnds, maxLookup \in 0..MaxChain :
        \E start \in 0..len :
            resolving = [NORES EXCEPT !.len = len, !.end = end, !.start = start,
                                !.maxLookup = maxLookup]

\* resolveDiskSpecification(name, maxLookup)
Resolve ==
    /\ ~resolving.done
    /\ resolving' = [resolving EXCEPT
            !.done = TRUE,
            !.out = resolveDiskSpecification(ChainConfig(resolving.len, resolving.end),
                                             ChainName(resolving.start), resolving.maxLookup)]
    /\ UNCHANGED <<pathVars, mgrVars, fsVars, lstVars, s3Vars, auxVars>>

(***************************************************************************)
(* The AsyncFSModule behind an FSDisk: a volume of directories and regular *)
(* files. A volume maps the names of an absolute path (root first) to a    *)
(* node; the root directory <<>> always exists.                            *)
(***************************************************************************)
\* The bodies callers write: no bytes, one byte, two bytes.
Bodies == {<<>>, <<1>>, <<0, 1>>}

DirNode == [type |-> "dir", data |-> <<>>]
FileNode(d) == [type |-> "file", data |-> d]

Prefix(names, i) == SubSeq(names, 1, i)

\* The volume with every directory of the path `names` present.
WithDirs(v, names) ==
    LET new == {Prefix(names, i) : i \in 0..Len(names)} \ DOMAIN v
    IN  [q \in DOMAIN v \cup new |-> IF q \in DOMAIN v THEN v[q] ELSE DirNode]

WithFile(v, names, d) ==
    [q \in DOMAIN v \cup {names} |-> IF q = names THEN FileNode(d) ELSE v[q]]

Without(v, names) == [q \in DOMAIN v \ {names} |-> v[q]]

EmptyVolume == [q \in {<<>>} |-> DirNode]

\* The error codes in which backends differ (node's fs on Linux and macOS,
\* fs-extra, memfs): what a path through a non-directory gives, what mkdirp
\* gives when the path exists as a non-directory, what unlink of a directory
\* gives. denied: the primitive, if any, that the backend refuses for lack
\* of permission (EACCES).
Backends ==
    [notDir : {"ENOTDIR", "ENOENT"}, collide : {"EEXIST", "ENOTDIR"},
     unlinkDir : {"EISDIR", "EPERM"}, denied : {"", "mkdirp", "writeFile"}]

\* The backends as far as mkdirp and writeFile into a directory that exists
\* can tell them apart, and as far as a lookup can.
BackendsOfWrite ==
    {b \in Backends : /\ b.notDir = "ENOTDIR" /\ b.unlinkDir = "EISDIR"
                      /\ (b.denied = "" \/ b.collide = "EEXIST")}
BackendsOfOpen == {b \in BackendsOfWrite : b.denied = ""}
BackendsOfLookup ==
    {b \in Backends : b.collide = "EEXIST" /\ b.unlinkDir = "EISDIR" /\ b.denied = ""}
BackendsOfUnlink == {b \in Backends : b.collide = "EEXIST" /\ b.denied = ""}

\* "" when the path exists, else the code a lookup of it fails with.
lookup(v, names, be) ==
    IF \E i \in 0..(Len(names) - 1) :
           Prefix(names, i) \in DOMAIN v /\ v[Prefix(names, i)].type # "dir"
    THEN be.notDir
    ELSE IF names \in DOMAIN v THEN "" ELSE "ENOENT"

\* stat: the type of the node, or an error code.
stat(v, p, be) ==
    LET e == lookup(v, NamesOf(p), be)
    IN  IF e # "" THEN [err |-> e, type |-> ""]
        ELSE [err |-> "", type |-> v[NamesOf(p)].type]

readFile(v, p, be) ==
    LET names == NamesOf(p)
        e == lookup(v, names, be)
    IN  IF e # "" THEN [err |-> e, data |-> <<>>]
        ELSE IF v[names].type = "dir" THEN [err |-> "EISDIR", data |-> <<>>]
        ELSE [err |-> "", data |-> v[names].data]

\* A plausible bug: the new bytes laid over the old ones, the file not truncated.
writeFileInPlace(v, p, body, be) ==
    LET names == NamesOf(p)
        e == lookup(v, names, be)
        old == IF e = "" THEN v[names].data ELSE <<>>
        kept == IF Len(old) > Len(body)
                THEN SubSeq(old, Len(body) + 1, Len(old)) ELSE <<>>
    IN  IF e = "" /\ v[names].type = "dir" THEN [err |-> "EISDIR", vol |-> v]
        ELSE IF be.denied = "writeFile" THEN [err |-> "EACCES", vol |-> v]
        ELSE IF e = "" \/ (e = "ENOENT" /\ lookup(v, NamesOf(dirname(p)), be) = "")
             THEN [err |-> "", vol |-> WithFile(v, names, body \o kept)]
             ELSE [err |-> e, vol |-> v]

\* writeFile: the file is created if it is missing (its directory must exist)
\* and its content replaced.
writeFile(v, p, body, be) ==
    LET names == NamesOf(p)
        e == lookup(v, names, be)
    IN  IF e = "" /\ v[names].type = "dir" THEN [err |-> "EISDIR", vol |-> v]
        ELSE IF be.denied = "writeFile" THEN [err |-> "EACCES", vol |-> v]
        ELSE IF e = "" \/ (e = "ENOENT" /\ lookup(v, NamesOf(dirname(p)), be) = "")
             THEN [err |-> "", vol |-> WithFile(v, names, body)]
             ELSE [err |-> e, vol |-> v]

\* A plausible bug: mkdir without parents, only the last directory made.
mkdirOne(v, p, be) ==
    LET names == NamesOf(p)
    IN  IF names \in DOMAIN v
        THEN IF v[names].type = "dir" THEN [err |-> "", vol |-> v]
             ELSE [err |-> be.collide, vol |-> v]
        ELSE IF lookup(v, NamesOf(dirname(p)), be) = ""
                /\ v[NamesOf(dirname(p))].type = "dir"
             THEN [err |-> "", vol |-> WithDirs(v, names)]
             ELSE [err |-> "ENOENT", vol |-> v]

\* mkdirp: every missing directory of the path is made; a component that
\* exists as a non-directory is an error and nothing is made, and so is a
\* directory that the backend does not permit to make.
mkdirp(v, p, be) ==
    LET names == NamesOf(p)
    IN  IF \E i \in 0..Len(names) :
               Prefix(names, i) \in DOMAIN v /\ v[Prefix(names, i)].type # "dir"
        THEN [err |-> be.collide, vol |-> v]
        ELSE IF be.denied = "mkdirp" /\ names \notin DOMAIN v
        THEN [err |-> "EACCES", vol |-> v]
        ELSE [err |-> "", vol |-> WithDirs(v, names)]

\* A plausible bug: unlink reports success and removes nothing.
unlinkNothing(v, p, be) ==
    LET names == NamesOf(p)
        e == lookup(v, names, be)
    IN  IF e # "" THEN [err |-> e, vol |-> v]
        ELSE IF v[names].type = "dir" THEN [err |-> be.unlinkDir, vol |-> v]
        ELSE [err |-> "", vol |-> v]

\* unlink: removes a file; a directory is refused.
unlink(v, p, be) ==
    LET names == NamesOf(p)
        e == lookup(v, names, be)
    IN  IF e # "" THEN [err |-> e, vol |-> v]
        ELSE IF v[names].type = "dir" THEN [err |-> be.unlinkDir, vol |-> v]
        ELSE [err |-> "", vol |-> Without(v, names)]

\* The order in which a backend enumerates the names of a directory.
NameOrder == <<"a", "b", "c">>

\* readdir: the names in the directory, in the backend's order.
readdir(v, p, be) ==
    LET names == NamesOf(p)
        e == lookup(v, names, be)
    IN  IF e # "" THEN [err |-> e, names |-> <<>>]
        ELSE IF v[names].type # "dir" THEN [err |-> "ENOTDIR", names |-> <<>>]
        ELSE [err |-> "",
              names |-> SelectSeq(NameOrder,
                                  LAMBDA n : Append(names, n) \in DOMAIN v)]

(***************************************************************************)
(* FSDisk: the disk operations. Each gives the volume afterwards, what the *)
(* call returned or threw, and the backend primitives it invoked (prims).  *)
(* An error is one of the disk errors, carrying a path, or the backend's   *)
(* error as it came (its code, carrying no path).                          *)
(***************************************************************************)
\* createReadStream: a stream over the bytes of a file. Opening one on a
\* path that does not exist can leave an empty file there (the reason
\* FSDisk.createReadStream stats first).
createReadStream(v, p, be) ==
    LET names == NamesOf(p)
        e == lookup(v, NamesOf(dirname(p)), be)
    IN  IF names \in DOMAIN v
        THEN IF v[names].type = "dir" THEN [err |-> "EISDIR", vol |-> v, data |-> <<>>]
             ELSE [err |-> "", vol |-> v, data |-> v[names].data]
        ELSE IF e = "" /\ v[NamesOf(dirname(p))].type = "dir"
        THEN [err |-> "", vol |-> WithFile(v, names, <<>>), data |-> <<>>]
        ELSE [err |-> "ENOENT", vol |-> v, data |-> <<>>]

\* The roots of the disks: "/" (MemoryDisk) and a directory of a local volume.
DiskRoots == {SEP, <<"", "r">>}
\* The virtual paths the callers pass: "/", "/a", "a/b", "a/b/c", "../b", "."
\* and "../..".
DiskPaths ==
    {SEP, <<"", "a">>, <<"a", "b">>, <<"a", "b", "c">>, <<"..", "b">>, <<".">>,
     <<"..", "..">>}

\* getFullPath for the roots and the virtual paths the operations below are
\* called with, computed once.
FullPaths ==
    [r \in DiskRoots, p \in DiskPaths \cup {NULL, <<"a">>} |-> getFullPath(r, p)]
FullPathOf(rootPath, pathOnDisk) == FullPaths[rootPath, pathOnDisk]

File == "file"
Directory == "directory"

Prim(fn, p) == [fn |-> fn, path |-> p]

Outcome(v, err, errPath, data, listing, prims) ==
    [vol |-> v, err |-> err, errPath |-> errPath, data |-> data,
     listing |-> listing, prims |-> prims]

\* FSDisk.read
FSRead(v, rootPath, pathOnDisk, be) ==
    LET fullPath == FullPathOf(rootPath, pathOnDisk)
        r == readFile(v, fullPath, be)
        prims == <<Prim("readFile", fullPath)>>
    IN  IF r.err = "EISDIR"
        THEN Outcome(v, "NotAFileError", pathOnDisk, <<>>, <<>>, prims)
        ELSE IF r.err = "ENOENT"
        THEN Outcome(v, "NotFoundError", pathOnDisk, <<>>, <<>>, prims)
        ELSE IF r.err # ""
        THEN Outcome(v, r.err, NOPATH, <<>>, <<>>, prims)
        ELSE Outcome(v, "", NOPATH, r.data, <<>>, prims)

\* A plausible bug: the stream opened without the stat before it.
FSCreateReadStreamUnchecked(v, rootPath, pathOnDisk, be) ==
    LET fullPath == FullPathOf(rootPath, pathOnDisk)
        r == createReadStream(v, fullPath, be)
        prims == <<Prim("createReadStream", fullPath)>>
    IN  IF r.err = "ENOENT"
        THEN Outcome(v, "NotFoundError", pathOnDisk, <<>>, <<>>, prims)
        ELSE IF r.err = "EISDIR"
        THEN Outcome(v, "NotAFileError", pathOnDisk, <<>>, <<>>, prims)
        ELSE Outcome(r.vol, "", NOPATH, r.data, <<>>, prims)

\* FSDisk.createReadStream: stat, then the stream for a regular file. The
\* data of the outcome is what the stream delivers.
FSCreateReadStream(v, rootPath, pathOnDisk, be) ==
    LET fullPath == FullPathOf(rootPath, pathOnDisk)
        stats == stat(v, fullPath, be)
        p1 == <<Prim("stat", fullPath)>>
        r == createReadStream(v, fullPath, be)
        p2 == Append(p1, Prim("createReadStream", fullPath))
    IN  IF stats.err = "ENOENT"
        THEN Outcome(v, "NotFoundError", pathOnDisk, <<>>, <<>>, p1)
        ELSE IF stats.err = "EISDIR"
        THEN Outcome(v, "NotAFileError", pathOnDisk, <<>>, <<>>, p1)
        ELSE IF stats.err # ""
        THEN Outcome(v, stats.err, NOPATH, <<>>, <<>>, p1)
        ELSE IF stats.type = "file"
        THEN Outcome(r.vol, r.err, NOPATH, r.data, <<>>, p2)
        ELSE Outcome(v, "NotAFileError", pathOnDisk, <<>>, <<>>, p1)

\* A plausible bug: only the EEXIST of node's fs taken for a collision of the
\* leading path, the ENOTDIR of other backends passed on as it came.
FSPrepareAndExecuteWriteEexistOnly(v, rootPath, pathOnDisk, body, kind, be) ==
    LET fullPath == FullPathOf(rootPath, pathOnDisk)
        m == mkdirp(v, dirname(fullPath), be)
        p1 == <<Prim("mkdirp", dirname(fullPath))>>
        x == IF kind = "open" THEN [err |-> "", vol |-> m.vol]
             ELSE writeFile(m.vol, fullPath, body, be)
        p2 == Append(p1, Prim(IF kind = "buffer" THEN "writeFile"
                              ELSE "createWriteStream", fullPath))
    IN  IF m.err = "EEXIST"
        THEN Outcome(v, "NotWritableDestinationError", pathOnDisk, <<>>, <<>>, p1)
        ELSE IF m.err # ""
        THEN Outcome(v, m.err, NOPATH, <<>>, <<>>, p1)
        ELSE IF x.err = "EISDIR" \/ x.err = "EACCES"
        THEN Outcome(m.vol, "NotWritableDestinationError", pathOnDisk, <<>>, <<>>, p2)
        ELSE IF x.err # ""
        THEN Outcome(m.vol, x.err, NOPATH, <<>>, <<>>, p2)
        ELSE Outcome(x.vol, "", NOPATH, <<>>, <<>>, p2)

\* FSDisk.prepareAndExecuteWrite with the execute callbacks of write (a
\* "buffer" body goes to writeFile, a "stream" body is piped into a write
\* stream, whose error is the pipe's error) and of createWriteStream ("open":
\* the stream is only made, nothing is written by the call).
FSPrepareAndExecuteWrite(v, rootPath, pathOnDisk, body, kind, be) ==
    LET fullPath == FullPathOf(rootPath, pathOnDisk)
        m == mkdirp(v, dirname(fullPath), be)
        p1 == <<Prim("mkdirp", dirname(fullPath))>>
        x == IF kind = "open" THEN [err |-> "", vol |-> m.vol]
             ELSE writeFile(m.vol, fullPath, body, be)
        p2 == Append(p1, Prim(IF kind = "buffer" THEN "writeFile"
                              ELSE "createWriteStream", fullPath))
    IN  IF m.err = "EEXIST" \/ m.err = "ENOTDIR"
        THEN Outcome(v, "NotWritableDestinationError", pathOnDisk, <<>>, <<>>, p1)
        ELSE IF m.err # ""
        THEN Outcome(v, m.err, NOPATH, <<>>, <<>>, p1)
        ELSE IF x.err = "EISDIR" \/ x.err = "EACCES"
        THEN Outcome(m.vol, "NotWritableDestinationError", pathOnDisk, <<>>, <<>>, p2)
        ELSE IF x.err # ""
        THEN Outcome(m.vol, x.err, NOPATH, <<>>, <<>>, p2)
        ELSE Outcome(x.vol, "", NOPATH, <<>>, <<>>, p2)

\* FSDisk.write
FSWrite(v, rootPath, pathOnDisk, body, kind, be) ==
    FSPrepareAndExecuteWrite(v, rootPath, pathOnDisk, body, kind, be)

\* FSDisk.createWriteStream
FSCreateWriteStream(v, rootPath, pathOnDisk, be) ==
    FSPrepareAndExecuteWrite(v, rootPath, pathOnDisk, <<>>, "open", be)

\* FSDisk.delete
FSDelete(v, rootPath, pathOnDisk, be) ==
    LET fullPath == FullPathOf(rootPath, pathOnDisk)
        u == unlink(v, fullPath, be)
        prims == <<Prim("unlink", fullPath)>>
    IN  IF u.err = "EISDIR" \/ u.err = "EPERM"
        THEN Outcome(v, "NotAFileError", pathOnDisk, <<>>, <<>>, prims)
        ELSE IF u.err = "ENOENT"
        THEN Outcome(v, "NotFoundError", pathOnDisk, <<>>, <<>>, prims)
        ELSE IF u.err # ""
        THEN Outcome(v, u.err, NOPATH, <<>>, <<>>, prims)
        ELSE Outcome(u.vol, "", NOPATH, <<>>, <<>>, prims)

(***************************************************************************)
(* Directory listing: FSDisk.list and LocalDisk.list.                      *)
(***************************************************************************)
NOLISTING == [type |-> "null", name |-> <<>>]
Listing(type, name) == [type |-> type, name |-> name]

\* `${name}${Disk.SEP}`
WithSep(name) == StrCat(<<name>>, SEP)

\* FSDisk.list, the callback mapped over pendingListings: the listing object
\* of an entry whose stat resolved to st (null for what is neither a
\* directory nor a file).
FSDiskRawListing(name, st) ==
    IF st.type = "dir" THEN Listing(Directory, WithSep(name))
    ELSE IF st.type = "file" THEN Listing(File, <<name>>)
    ELSE NOLISTING

\* LocalDisk.list, the callback mapped over directoryEntities, for an entity
\* that is no symbolic link: decided by the Dirent alone.
LocalDiskEntityListing(name, dirent) ==
    IF dirent = "dir" THEN Listing(Directory, WithSep(name))
    ELSE IF dirent = "file" THEN Listing(Directory, <<name>>)
    ELSE NOLISTING

\* LocalDisk.list, the same callback for a symbolic link whose stat resolved
\* to st.
LocalDiskLinkListing(name, st) ==
    IF st.type = "file" THEN Listing(File, <<name>>)
    ELSE IF st.type = "dir" THEN Listing(Directory, WithSep(name))
    ELSE NOLISTING

\* Whether list() fails when the stat of an entry fails with `code`.
\* FSDisk.list: the try/catch around the (unawaited) call of fs.stat catches
\* no rejection, so every failed stat rejects Promise.all.
FSDiskStatErrorThrown(code) == code # ""

\* LocalDisk.list: the awaited stat is inside the try; ENOENT is dropped.
LocalDiskStatErrorThrown(code) == code # "" /\ code # "ENOENT"

\* A plausible bug: the results taken in the order the stats completed.
collectAsCompleted(raw, order, n) == [k \in 1..n |-> raw[order[k]]]

\* Promise.all: the results in the order of the promises, whatever order
\* they settled in.
collect(raw, order, n) == [k \in 1..n |-> raw[k]]

\* The reduce into {directories, files} and [...directories, ...files].
separate(rawListings) ==
    SelectSeq(rawListings, LAMBDA l : l.type = Directory)
        \o SelectSeq(rawListings, LAMBDA l : l.type = File)

\* FSDisk.list on a volume, the stats settling in the order of the entries.
FSList(v, rootPath, pathToDirectoryOnDisk, be) ==
    LET fullPath == FullPathOf(rootPath, pathToDirectoryOnDisk)
        d == readdir(v, fullPath, be)
        n == Len(d.names)
        entryPath(i) == resolve(fullPath, <<d.names[i]>>)
        stats == [i \in 1..n |-> stat(v, entryPath(i), be)]
        failed == {i \in 1..n : FSDiskStatErrorThrown(stats[i].err)}
        raw == [i \in 1..n |-> FSDiskRawListing(d.names[i], stats[i])]
        prims == <<Prim("readdir", fullPath)>>
                     \o [i \in 1..n |-> Prim("stat", entryPath(i))]
    IN  IF d.err = "ENOTDIR"
        THEN Outcome(v, "NotADirectoryError", pathToDirectoryOnDisk, <<>>, <<>>,
                     <<Prim("readdir", fullPath)>>)
        ELSE IF d.err = "ENOENT"
        THEN Outcome(v, "NotFoundError", pathToDirectoryOnDisk, <<>>, <<>>,
                     <<Prim("readdir", fullPath)>>)
        ELSE IF d.err # ""
        THEN Outcome(v, d.err, NOPATH, <<>>, <<>>, <<Prim("readdir", fullPath)>>)
        ELSE IF failed # {}
        THEN Outcome(v, stats[CHOOSE i \in failed : \A j \in failed : i <= j].err,
                     NOPATH, <<>>, <<>>, prims)
        ELSE Outcome(v, "", NOPATH, <<>>, separate(collect(raw, <<>>, n)), prims)

(***************************************************************************)
(* One FSDisk in use: the operations a caller can invoke, one at a time.   *)
(***************************************************************************)


NOSTREAM == [state |-> "none", path |-> NOPATH, err |-> ""]

\* What was at a virtual path: a node of the volume, or nothing.
NONODE == [type |-> "none", data |-> <<>>]
NodeAt(v, rootPath, pathOnDisk) ==
    LET names == NamesOf(FullPathOf(rootPath, pathOnDisk))
    IN  IF names \in DOMAIN v THEN v[names] ELSE NONODE

\* The record of an operation: what was asked, what was at the path before
\* (was), and the outcome.
Op(op, pathOnDisk, body, kind, was, out) ==
    [op |-> op, path |-> pathOnDisk, body |-> body, kind |-> kind, was |-> was,
     err |-> out.err, errPath |-> out.errPath, data |-> out.data,
     listing |-> out.listing, prims |-> out.prims]

NOOP == Op("none", NOPATH, <<>>, "", NONODE, Outcome(EmptyVolume, "", NOPATH, <<>>, <<>>, <<>>))

\* What the root directory of a disk holds when the disk is constructed:
\* nothing, or a file b that was there before.
InitialVolumes(rootPath) ==
    LET empty == WithDirs(EmptyVolume, NamesOf(rootPath))
    IN  {empty, WithFile(empty, Append(NamesOf(rootPath), "b"), <<0, 1>>)}

FSInit ==
    /\ rootIn \in DiskRoots
    /\ vol \in InitialVolumes(rootIn)
    /\ last = NOOP
    /\ ops = 0
    /\ wstream = NOSTREAM

Write ==
    /\ ops < MaxOps
    /\ \E p \in DiskPaths, body \in Bodies, kind \in {"buffer", "stream"},
          be \in BackendsOfWrite :
        \E out \in {FSWrite(vol, rootIn, p, body, kind, be)} :
            /\ ops' = ops + 1
            /\ vol' = out.vol
            /\ last' = Op("write", p, body, kind, NodeAt(vol, rootIn, p), out)
            /\ UNCHANGED <<rootIn, wstream, pathIn, pathOut, mgrVars, lstVars, resVars, s3Vars, auxVars>>

Read ==
    /\ ops < MaxOps
    /\ \E p \in DiskPaths, be \in BackendsOfLookup :
        \E out \in {FSRead(vol, rootIn, p, be)} :
            /\ ops' = ops + 1
            /\ last' = Op("read", p, <<>>, "", NodeAt(vol, rootIn, p), out)
            /\ UNCHANGED <<rootIn, vol, wstream, pathIn, pathOut, mgrVars, lstVars, resVars, s3Vars, auxVars>>

CreateReadStream ==
    /\ ops < MaxOps
    /\ \E p \in DiskPaths, be \in BackendsOfLookup :
        \E out \in {FSCreateReadStream(vol, rootIn, p, be)} :
            /\ ops' = ops + 1
            /\ vol' = out.vol
            /\ last' = Op("createReadStream", p, <<>>, "", NodeAt(vol, rootIn, p), out)
            /\ UNCHANGED <<rootIn, wstream, pathIn, pathOut, mgrVars, lstVars, resVars, s3Vars, auxVars>>

Delete ==
    /\ ops < MaxOps
    /\ \E p \in DiskPaths, be \in BackendsOfUnlink :
        \E out \in {FSDelete(vol, rootIn, p, be)} :
            /\ ops' = ops + 1
            /\ vol' = out.vol
            /\ last' = Op("delete", p, <<>>, "", NodeAt(vol, rootIn, p), out)
            /\ UNCHANGED <<rootIn, wstream, pathIn, pathOut, mgrVars, lstVars, resVars, s3Vars, auxVars>>

List ==
    /\ ops < MaxOps
    /\ \E p \in DiskPaths \cup {NULL}, be \in BackendsOfLookup :
        \E out \in {FSList(vol, rootIn, p, be)} :
            /\ ops' = ops + 1
            /\ last' = Op("list", p, <<>>, "", NodeAt(vol, rootIn, p), out)
            /\ UNCHANGED <<rootIn, vol, wstream, pathIn, pathOut, mgrVars, lstVars, resVars, s3Vars, auxVars>>

\* createWriteStream(p): the directories are made and a stream is handed
\* out; the stream opens its file later.
CreateWriteStream ==
    /\ ops < MaxOps
    /\ wstream.state = "none"
    /\ \E p \in DiskPaths, be \in BackendsOfOpen :
        \E out \in {FSCreateWriteStream(vol, rootIn, p, be)} :
            /\ ops' = ops + 1
            /\ vol' = out.vol
            /\ last' = Op("createWriteStream", p, <<>>, "open", NodeAt(vol, rootIn, p), out)
            /\ wstream' = IF out.err = ""
                          THEN [state |-> "made", path |-> FullPathOf(rootIn, p),
                                err |-> ""]
                          ELSE wstream
            /\ UNCHANGED <<rootIn, pathIn, pathOut, mgrVars, lstVars, resVars, s3Vars, auxVars>>

\* The stream opens its file for writing (created or truncated); a failure
\* is emitted on the stream as the backend's error.
StreamOpen ==
    /\ wstream.state = "made"
    /\ \E be \in BackendsOfLookup :
        \E w \in {writeFile(vol, wstream.path, <<>>, be)} :
            /\ vol' = w.vol
            /\ wstream' = [wstream EXCEPT !.state = IF w.err = "" THEN "open"
                                                   ELSE "error",
                                          !.err = w.err]
            /\ UNCHANGED <<rootIn, last, ops, pathIn, pathOut, mgrVars, lstVars, resVars, s3Vars, auxVars>>

\* writeStream.end(body): the bytes are written and the stream finishes.
StreamEnd ==
    /\ wstream.state = "open"
    /\ \E body \in Bodies, be \in BackendsOfLookup :
        \E w \in {writeFile(vol, wstream.path, body, be)} :
            /\ vol' = IF w.err = "" THEN w.vol ELSE vol
            /\ wstream' = NOSTREAM
            /\ UNCHANGED <<rootIn, last, ops, pathIn, pathOut, mgrVars, lstVars, resVars, s3Vars, auxVars>>

FSNext ==
    \/ Write
    \/ Read
    \/ CreateReadStream
    \/ Delete
    \/ List
    \/ CreateWriteStream
    \/ StreamOpen
    \/ StreamEnd

(***************************************************************************)
(* One list() call on a directory whose entries the backend enumerates in  *)
(* a given order; the stats of the entries are in flight together and      *)
(* settle in any order.                                                    *)
(***************************************************************************)
\* What an entry is: a regular file, a directory, something else (a socket,
\* a FIFO, a device), or a symbolic link to one of these, to nothing, or to
\* a target whose stat is denied.
EntryKinds ==
    {"file", "dir", "other", "linkFile", "linkDir", "linkOther", "linkMissing",
     "linkDenied"}

\* The names of the entries, in the order the backend enumerates them.
EntryNames == <<"c", "a", "d", "b", "e">>

\* fs.stat of an entry (it follows links).
statOfEntry(kind) ==
    IF kind \in {"file", "linkFile"} THEN [err |-> "", type |-> "file"]
    ELSE IF kind \in {"dir", "linkDir"} THEN [err |-> "", type |-> "dir"]
    ELSE IF kind \in {"other", "linkOther"} THEN [err |-> "", type |-> "other"]
    ELSE IF kind = "linkMissing" THEN [err |-> "ENOENT", type |-> ""]
    ELSE [err |-> "EACCES", type |-> ""]

\* The Dirent of an entry (readdir withFileTypes does not follow links).
direntOfEntry(kind) ==
    IF kind \in {"file", "dir", "other"} THEN kind ELSE "link"

\* The entries whose listing object waits for a stat.
NeedsStat(variant, kind) == variant = "FSDisk" \/ direntOfEntry(kind) = "link"

IDLE ==
    [variant |-> "", entries |-> <<>>, phase |-> "idle", pending |-> {},
     raw |-> <<>>, order |-> <<>>, listing |-> <<>>, err |-> ""]

ListInit ==
    \E variant \in {"FSDisk", "LocalDisk"}, kinds \in SeqsUpTo(EntryKinds, MaxEntries) :
        lst = [IDLE EXCEPT !.variant = variant, !.entries = kinds]

\* list() is called: readdir returns the entries, the stats are issued.
ListStart ==
    LET n == Len(lst.entries)
        now == {i \in 1..n : ~NeedsStat(lst.variant, lst.entries[i])}
    IN  /\ lst.phase = "idle"
        /\ UNCHANGED <<pathVars, mgrVars, vol, last, ops, wstream, resVars, s3Vars, auxVars>>
        /\ lst' = [lst EXCEPT
                !.phase = "stats",
                !.pending = (1..n) \ now,
                !.raw = [i \in 1..n |->
                            IF i \in now
                            THEN LocalDiskEntityListing(EntryNames[i],
                                                        direntOfEntry(lst.entries[i]))
                            ELSE NOLISTING],
                !.order = SelectSeq([i \in 1..n |-> i], LAMBDA i : i \in now)]

\* The stat of entry i settles.
StatSettles ==
    \E i \in lst.pending :
        LET st == statOfEntry(lst.entries[i])
            thrown == IF lst.variant = "FSDisk" THEN FSDiskStatErrorThrown(st.err)
                      ELSE LocalDiskStatErrorThrown(st.err)
            listing == IF lst.variant = "FSDisk"
                       THEN FSDiskRawListing(EntryNames[i], st)
                       ELSE LocalDiskLinkListing(EntryNames[i], st)
        IN  /\ lst.phase = "stats"
            /\ UNCHANGED <<pathVars, mgrVars, vol, last, ops, wstream, resVars, s3Vars, auxVars>>
            /\ lst' = IF thrown
                      THEN [lst EXCEPT !.phase = "failed", !.err = st.err,
                                       !.pending = @ \ {i}]
                      ELSE [lst EXCEPT !.pending = @ \ {i},
                                       !.raw[i] = listing,
                                       !.order = Append(@, i)]

\* Every listing object is there: list() returns.
ListReturns ==
    /\ lst.phase = "stats"
    /\ lst.pending = {}
    /\ UNCHANGED <<pathVars, mgrVars, vol, last, ops, wstream, resVars, s3Vars, auxVars>>
    /\ lst' = [lst EXCEPT
            !.phase = "done",
            !.listing = separate(collect(lst.raw, lst.order, Len(lst.entries)))]

ListNext ==
    \/ ListStart
    \/ StatSettles
    \/ ListReturns

(***************************************************************************)
(* S3Disk. Keys, prefixes and paths are strings, written as sequences of   *)
(* characters: "d/f" is <<"d", "/", "f">>, and null and "" are both <<>>.  *)
(* The bucket maps the keys of its objects to their bodies.                *)
(***************************************************************************)
\* The characters of the model's keys and their code units, which give the
\* order in which the bucket lists its keys.
CharCode ==
    [c \in {"+", "/", "d", "f", "g", "r", "s", "x", "y"} |->
        CASE c = "+" -> 43 [] c = "/" -> 47 [] c = "d" -> 100 [] c = "f" -> 102
          [] c = "g" -> 103 [] c = "r" -> 114 [] c = "s" -> 115 [] c = "x" -> 120
          [] c = "y" -> 121]

startsWith(s, p) == Len(s) >= Len(p) /\ SubSeq(s, 1, Len(p)) = p
endsWith(s, c) == Len(s) > 0 /\ s[Len(s)] = c
dropFirst(s, n) == SubSeq(s, n + 1, Len(s))

\* Disk.sanitizePathOnDisk: '' for null or '', otherwise the path without one
\* leading '/' (the alphabet has no whitespace for trim() to remove).
sanitizePathOnDisk(pathOnDisk) ==
    IF pathOnDisk = <<>> THEN <<>>
    ELSE IF pathOnDisk[1] = "/" THEN Tail(pathOnDisk) ELSE pathOnDisk

\* S3Disk.sanitizeKeyPrefix: the regex removes one leading '/' and, from what
\* is left, one trailing '/'; a non-empty result gets '/' appended.
sanitizeKeyPrefix(raw) ==
    LET noLead == IF raw # <<>> /\ raw[1] = "/" THEN Tail(raw) ELSE raw
        prefix == IF endsWith(noLead, "/") THEN SubSeq(noLead, 1, Len(noLead) - 1)
                  ELSE noLead
    IN  IF prefix # <<>> THEN prefix \o <<"/">> ELSE <<>>

getKeyPrefix(cfg) == sanitizeKeyPrefix(cfg.root)

\* S3Disk.getObjectParams(path).Key
getObjectKey(cfg, path) == getKeyPrefix(cfg) \o sanitizePathOnDisk(path)

\* new RegExp('^' + prefix): '+' repeats the character before it, every other
\* character of the alphabet stands for itself. A '+' with nothing to repeat
\* is a SyntaxError.
regExpCompiles(prefix) ==
    \A i \in 1..Len(prefix) : prefix[i] = "+" => (i > 1 /\ prefix[i - 1] # "+")

regExpAtoms(prefix) ==
    LET IsAtom(i) == prefix[i] # "+"
        idx == SelectSeq([i \in 1..Len(prefix) |-> i], IsAtom)
    IN  [j \in 1..Len(idx) |->
            [c |-> prefix[idx[j]],
             plus |-> idx[j] < Len(prefix) /\ prefix[idx[j] + 1] = "+"]]

\* How many times c stands in s right after position j.
runLength(s, j, c) ==
    CHOOSE n \in 0..(Len(s) - j) :
        /\ \A i \in 1..n : s[j + i] = c
        /\ (j + n < Len(s) => s[j + n + 1] # c)

\* Where the match of the atoms ends when it starts after position j of s,
\* or -1 when there is none; a repeated atom takes as many characters as the
\* rest of the pattern allows.
RECURSIVE regExpMatchEnd(_, _, _)
regExpMatchEnd(atoms, s, j) ==
    IF atoms = <<>> THEN j
    ELSE LET a == Head(atoms)
             run == runLength(s, j, a.c)
             fits == {k \in 1..run : regExpMatchEnd(Tail(atoms), s, j + k) # -1}
         IN  IF ~a.plus
             THEN IF run >= 1 THEN regExpMatchEnd(Tail(atoms), s, j + 1) ELSE -1
             ELSE IF fits = {} THEN -1
                  ELSE regExpMatchEnd(Tail(atoms), s,
                           j + CHOOSE k \in fits : \A o \in fits : o <= k)

\* listSomeObjects' trimPrefix: nameWithPrefix.replace(new RegExp(`^${prefix}`), '')
trimPrefix(nameWithPrefix, prefix) ==
    LET e == regExpMatchEnd(regExpAtoms(prefix), nameWithPrefix, 0)
    IN  IF e = -1 THEN nameWithPrefix ELSE dropFirst(nameWithPrefix, e)

\* The keys of a set in the bucket's listing order (by code units).
RECURSIVE keyBefore(_, _)
keyBefore(a, b) ==
    IF a = <<>> THEN b # <<>>
    ELSE IF b = <<>> THEN FALSE
    ELSE IF a[1] = b[1] THEN keyBefore(Tail(a), Tail(b))
    ELSE CharCode[a[1]] < CharCode[b[1]]

RECURSIVE sortedKeys(_)
sortedKeys(S) ==
    IF S = {} THEN <<>>
    ELSE LET k == CHOOSE x \in S : \A o \in S \ {x} : keyBefore(x, o)
         IN  <<k>> \o sortedKeys(S \ {k})

\* A sequence without the later occurrences of its elements ([...new Set(s)]).
RECURSIVE unique(_)
unique(s) ==
    IF s = <<>> THEN <<>>
    ELSE LET front == unique(SubSeq(s, 1, Len(s) - 1))
             x == s[Len(s)]
         IN  IF \E i \in 1..Len(front) : front[i] = x THEN front ELSE Append(front, x)

\* What listObjectsV2 reports for one key under Prefix with Delimiter '/':
\* the key itself, or the common prefix up to the next '/'.
listedItem(key, prefix) ==
    LET rest == dropFirst(key, Len(prefix))
        slashes == {i \in 1..Len(rest) : rest[i] = "/"}
    IN  IF slashes = {}
        THEN [dir |-> FALSE, key |-> key]
        ELSE [dir |-> TRUE,
              key |-> SubSeq(key, 1, Len(prefix) + CHOOSE i \in slashes : \A o \in slashes : i <= o)]

\* The items the backend pages through: one per key (a common prefix then
\* recurs on later pages), or, rolled up as S3 does, one per common prefix.
listedItems(bkt, prefix, rolledUp) ==
    LET keys == sortedKeys({k \in DOMAIN bkt : startsWith(k, prefix)})
        items == [i \in 1..Len(keys) |-> listedItem(keys[i], prefix)]
    IN  IF rolledUp THEN unique(items) ELSE items

NOTOKEN == 0

\* One page of the items: at most maxKeys of them after the first token.
listedPage(items, maxKeys, token) ==
    SubSeq(items, token + 1,
           IF token + maxKeys < Len(items) THEN token + maxKeys ELSE Len(items))
isCommonPrefix(item) == item.dir
isContent(item) == ~item.dir
keysOf(items) == [i \in 1..Len(items) |-> items[i].key]

\* The backend's answer to listObjectsV2({Prefix, MaxKeys, Delimiter: '/',
\* ContinuationToken}); a token is the number of items already returned.
listObjectsV2Page(items, maxKeys, token) ==
    [Contents |-> keysOf(SelectSeq(listedPage(items, maxKeys, token), isContent)),
     CommonPrefixes |->
         keysOf(unique(SelectSeq(listedPage(items, maxKeys, token), isCommonPrefix))),
     IsTruncated |-> token + maxKeys < Len(items),
     NextContinuationToken |->
         IF token + maxKeys < Len(items) THEN token + maxKeys ELSE NOTOKEN]
listObjectsV2(bkt, prefix, maxKeys, token, rolledUp) ==
    listObjectsV2Page(listedItems(bkt, prefix, rolledUp), maxKeys, token)

\* The error codes of the client: the two a missing key gives, and one that
\* the library knows nothing about.
NotFound == "NotFound"
NoSuchKey == "NoSuchKey"
UnknownCode == "AccessDenied"

nonEmpty(s) == s # <<>>

\* The names of a page's keys: prefix trimmed, empty names dropped.
trimmedNames(keys, prefix) ==
    SelectSeq([i \in 1..Len(keys) |-> trimPrefix(keys[i], prefix)], nonEmpty)

\* A plausible bug: the next token taken without a look at IsTruncated.
listedPageOfIgnoresTruncated(response, prefix, request) ==
    [error |-> "",
     next |-> response.NextContinuationToken,
     files |-> trimmedNames(response.Contents, prefix),
     directories |-> trimmedNames(response.CommonPrefixes, prefix),
     requests |-> <<request>>, responses |-> <<response>>]

\* What listSomeObjects makes of the backend's response.
listedPageOf(response, prefix, request) ==
    IF response.Contents \o response.CommonPrefixes # <<>> /\ ~regExpCompiles(prefix)
    THEN [error |-> "SyntaxError", next |-> NOTOKEN, files |-> <<>>, directories |-> <<>>,
          requests |-> <<request>>, responses |-> <<response>>]
    ELSE [error |-> "",
          next |-> IF response.IsTruncated THEN response.NextContinuationToken ELSE NOTOKEN,
          files |-> trimmedNames(response.Contents, prefix),
          directories |-> trimmedNames(response.CommonPrefixes, prefix),
          requests |-> <<request>>, responses |-> <<response>>]

\* S3Disk.listSomeObjects: one page, names trimmed and empty names dropped.
\* failed: the request rejects with UnknownCode.
listSomeObjects(bkt, prefix, limit, token, rolledUp, failed) ==
    IF failed
    THEN [error |-> UnknownCode, next |-> NOTOKEN, files |-> <<>>, directories |-> <<>>,
          requests |-> <<[call |-> "listObjectsV2", key |-> prefix, token |-> token]>>,
          responses |-> <<>>]
    ELSE listedPageOf(listObjectsV2(bkt, prefix, limit, token, rolledUp), prefix,
                      [call |-> "listObjectsV2", key |-> prefix, token |-> token])

\* rawListAllObjects' result for a page that has a next one: the page's
\* entries, then those of the pages after it.
restListAllObjects(page, rest) ==
    [error |-> rest.error,
     files |-> page.files \o rest.files,
     directories |-> page.directories \o rest.directories,
     requests |-> page.requests \o rest.requests,
     responses |-> page.responses \o rest.responses]

\* rawListAllObjects once its page is there: the page alone, or the page and
\* the pages that follow its token. n numbers the requests; request number
\* fault fails.
RECURSIVE rawListFrom(_, _, _, _, _, _, _)
rawListFrom(page, bkt, prefix, limit, rolledUp, fault, n) ==
    IF page.error = "" /\ page.next # NOTOKEN
    THEN restListAllObjects(page,
             rawListFrom(listSomeObjects(bkt, prefix, limit, page.next, rolledUp,
                                         fault = n + 1),
                         bkt, prefix, limit, rolledUp, fault, n + 1))
    ELSE [error |-> page.error, files |-> page.files, directories |-> page.directories,
          requests |-> page.requests, responses |-> page.responses]

\* S3Disk.rawListAllObjects
rawListAllObjects(bkt, prefix, limit, token, rolledUp, fault, n) ==
    rawListFrom(listSomeObjects(bkt, prefix, limit, token, rolledUp, fault = n),
                bkt, prefix, limit, rolledUp, fault, n)

DefaultLimit == 1000

\* What an S3Disk operation gives: its error ("" for none) with the path the
\* error carries, its value, the bucket afterwards and the requests it sent.
S3Result(error, errPath, value, bkt, requests, responses) ==
    [error |-> error, errPath |-> errPath, value |-> value, bucket |-> bkt,
     requests |-> requests, responses |-> responses]

\* The entries of a type for a sequence of names.
entriesOf(names, type) == [i \in 1..Len(names) |-> [name |-> names[i], type |-> type]]

\* A plausible bug: a listing with nothing in it reported as a missing
\* directory, as a filesystem would.
listingOfNotFoundWhenEmpty(raw, bkt) ==
    IF raw.error # ""
    THEN S3Result(raw.error, <<>>, <<>>, bkt, raw.requests, raw.responses)
    ELSE IF raw.directories \o raw.files = <<>>
    THEN S3Result("NotFoundError", <<>>, <<>>, bkt, raw.requests, raw.responses)
    ELSE S3Result("", <<>>,
             entriesOf(unique(raw.directories), Directory)
                 \o entriesOf(unique(raw.files), File),
             bkt, raw.requests, raw.responses)

\* What list makes of the raw listing: duplicates dropped, directories first.
listingOf(raw, bkt) ==
    IF raw.error # ""
    THEN S3Result(raw.error, <<>>, <<>>, bkt, raw.requests, raw.responses)
    ELSE S3Result("", <<>>,
             entriesOf(unique(raw.directories), Directory)
                 \o entriesOf(unique(raw.files), File),
             bkt, raw.requests, raw.responses)

\* S3Disk.list
S3List(bkt, cfg, pathToDirectory, rolledUp, fault) ==
    listingOf(rawListAllObjects(bkt,
                  getKeyPrefix(cfg) \o sanitizeKeyPrefix(pathToDirectory),
                  IF cfg.pagingLimit # 0 THEN cfg.pagingLimit ELSE DefaultLimit,
                  NOTOKEN, rolledUp, fault, 1),
              bkt)

S3Request(call, key) == [call |-> call, key |-> key, token |-> NOTOKEN]

\* S3Disk.read: the catch block throws NotFoundError for NoSuchKey and lets
\* every other error fall through with body still null.
S3Read(bkt, cfg, path, fault) ==
    LET key == getObjectKey(cfg, path)
        requests == <<S3Request("getObject", key)>>
        code == IF fault = 1 THEN UnknownCode
                ELSE IF key \notin DOMAIN bkt THEN NoSuchKey ELSE ""
        gotBody == code = ""
    IN  IF code = NoSuchKey
        THEN S3Result("NotFoundError", path, <<>>, bkt, requests, <<>>)
        ELSE IF endsWith(key, "/")
        THEN S3Result("NotAFileError", path, <<>>, bkt, requests, <<>>)
        ELSE IF gotBody
        THEN S3Result("", <<>>, bkt[key], bkt, requests, <<>>)
        ELSE S3Result("", <<>>, <<>>, bkt, requests, <<>>)

\* S3Disk.createReadStream
S3CreateReadStream(bkt, cfg, path, fault) ==
    LET key == getObjectKey(cfg, path)
        head == <<S3Request("headObject", key)>>
    IN  IF fault = 1 THEN S3Result(UnknownCode, <<>>, <<>>, bkt, head, <<>>)
        ELSE IF key \notin DOMAIN bkt
        THEN S3Result("NotFoundError", path, <<>>, bkt, head, <<>>)
        ELSE IF endsWith(key, "/")
        THEN S3Result("NotAFileError", path, <<>>, bkt, head, <<>>)
        ELSE S3Result("", <<>>, bkt[key], bkt,
                      Append(head, S3Request("getObject", key)), <<>>)

\* A plausible bug: the object put without a look for a directory marker.
S3WriteUnprobed(bkt, cfg, path, body, fault) ==
    IF endsWith(getObjectKey(cfg, path), "/")
    THEN S3Result("NotWritableDestinationError", path, <<>>, bkt, <<>>, <<>>)
    ELSE IF fault = 1
    THEN S3Result(UnknownCode, <<>>, <<>>, bkt,
                  <<S3Request("putObject", getObjectKey(cfg, path))>>, <<>>)
    ELSE S3Result("", <<>>, <<>>,
                  [k \in DOMAIN bkt \cup {getObjectKey(cfg, path)} |->
                      IF k = getObjectKey(cfg, path) THEN body ELSE bkt[k]],
                  <<S3Request("putObject", getObjectKey(cfg, path))>>, <<>>)

\* S3Disk.write, with doObjectParamsMatchDirectoryObject
S3Write(bkt, cfg, path, body, fault) ==
    LET key == getObjectKey(cfg, path)
        head == <<S3Request("headObject", key \o <<"/">>)>>
    IN  IF endsWith(key, "/")
        THEN S3Result("NotWritableDestinationError", path, <<>>, bkt, <<>>, <<>>)
        ELSE IF fault = 1 THEN S3Result(UnknownCode, <<>>, <<>>, bkt, head, <<>>)
        ELSE IF (key \o <<"/">>) \in DOMAIN bkt
        THEN S3Result("NotWritableDestinationError", path, <<>>, bkt, head, <<>>)
        ELSE IF fault = 2
        THEN S3Result(UnknownCode, <<>>, <<>>, bkt,
                      Append(head, S3Request("putObject", key)), <<>>)
        ELSE S3Result("", <<>>, <<>>,
                      [k \in DOMAIN bkt \cup {key} |-> IF k = key THEN body ELSE bkt[k]],
                      Append(head, S3Request("putObject", key)), <<>>)

\* S3Disk.createWriteStream
S3CreateWriteStream(bkt) == S3Result("Error", <<>>, <<>>, bkt, <<>>, <<>>)

\* A plausible bug: the object deleted without a look whether it is there
\* (deleteObject succeeds for a missing key).
S3DeleteUnprobed(bkt, cfg, path, fault) ==
    IF endsWith(getObjectKey(cfg, path), "/")
    THEN S3Result("NotAFileError", path, <<>>, bkt, <<>>, <<>>)
    ELSE IF fault = 1
    THEN S3Result(UnknownCode, <<>>, <<>>, bkt,
                  <<S3Request("deleteObject", getObjectKey(cfg, path))>>, <<>>)
    ELSE S3Result("", <<>>, <<>>,
                  [k \in DOMAIN bkt \ {getObjectKey(cfg, path)} |-> bkt[k]],
                  <<S3Request("deleteObject", getObjectKey(cfg, path))>>, <<>>)

\* S3Disk.delete
S3Delete(bkt, cfg, path, fault) ==
    LET key == getObjectKey(cfg, path)
        head == <<S3Request("headObject", key)>>
    IN  IF endsWith(key, "/")
        THEN S3Result("NotAFileError", path, <<>>, bkt, <<>>, <<>>)
        ELSE IF fault = 1 THEN S3Result(UnknownCode, <<>>, <<>>, bkt, head, <<>>)
        ELSE IF key \notin DOMAIN bkt
        THEN S3Result("NotFoundError", path, <<>>, bkt, head, <<>>)
        ELSE IF fault = 2
        THEN S3Result(UnknownCode, <<>>, <<>>, bkt,
                      Append(head, S3Request("deleteObject", key)), <<>>)
        ELSE S3Result("", <<>>, <<>>, [k \in DOMAIN bkt \ {key} |-> bkt[k]],
                      Append(head, S3Request("deleteObject", key)), <<>>)

\* The disks and buckets of the model: the root of the disk's config, its
\* pagingLimit (0: not set), and objects below the root's key prefix.
S3Roots == {<<>>, <<"/", "r", "/">>}
S3Keys ==
    {<<"d", "/">>, <<"d", "/", "f">>, <<"d", "/", "s", "/", "x">>,
     <<"d", "/", "s", "/", "y">>, <<"d", "+", "/">>, <<"d", "+", "/", "f">>}
S3Paths == {<<"d", "/", "f">>, <<"/", "d", "/", "f">>, <<"d">>, <<"d", "/">>,
            <<"d", "/", "s", "/", "x">>}
S3ListPaths == {<<>>, <<"d">>, <<"/", "d", "/">>, <<"d", "+">>, <<"d", "/", "f">>}
S3Body == <<1>>
S3NewBody == <<2>>

NOS3OP ==
    [op |-> "", path |-> <<>>, fault |-> 0, rolledUp |-> FALSE, was |-> <<>>,
     out |-> S3Result("", <<>>, <<>>, <<>>, <<>>, <<>>)]

S3Init ==
    /\ s3cfg \in [root : S3Roots, pagingLimit : 0..MaxPage]
    /\ \E keys \in SUBSET S3Keys :
           bucket = [k \in {getKeyPrefix(s3cfg) \o rel : rel \in keys} |-> S3Body]
    /\ s3last = NOS3OP
    /\ s3ops = 0

\* One operation of the disk: the bucket becomes what the operation leaves.
S3Op(op, path, fault, rolledUp, out) ==
    /\ s3ops < MaxS3Ops
    /\ s3ops' = s3ops + 1
    /\ bucket' = out.bucket
    /\ s3last' = [op |-> op, path |-> path, fault |-> fault, rolledUp |-> rolledUp,
                  was |-> bucket, out |-> out]
    /\ UNCHANGED s3cfg

S3DiskRead ==
    /\ \E path \in S3Paths, fault \in 0..1 :
           S3Op("read", path, fault, FALSE, S3Read(bucket, s3cfg, path, fault))
    /\ UNCHANGED <<pathVars, mgrVars, resVars, fsVars, lstVars, auxVars>>

S3DiskCreateReadStream ==
    /\ \E path \in S3Paths, fault \in 0..1 :
           S3Op("createReadStream", path, fault, FALSE,
                S3CreateReadStream(bucket, s3cfg, path, fault))
    /\ UNCHANGED <<pathVars, mgrVars, resVars, fsVars, lstVars, auxVars>>

S3DiskWrite ==
    /\ \E path \in S3Paths, fault \in 0..2 :
           S3Op("write", path, fault, FALSE, S3Write(bucket, s3cfg, path, S3NewBody, fault))
    /\ UNCHANGED <<pathVars, mgrVars, resVars, fsVars, lstVars, auxVars>>

S3DiskCreateWriteStream ==
    /\ S3Op("createWriteStream", <<>>, 0, FALSE, S3CreateWriteStream(bucket))
    /\ UNCHANGED <<pathVars, mgrVars, resVars, fsVars, lstVars, auxVars>>

S3DiskDelete ==
    /\ \E path \in S3Paths, fault \in 0..2 :
           S3Op("delete", path, fault, FALSE, S3Delete(bucket, s3cfg, path, fault))
    /\ UNCHANGED <<pathVars, mgrVars, resVars, fsVars, lstVars, auxVars>>

S3DiskList ==
    /\ \E path \in S3ListPaths, fault \in 0..2, rolledUp \in BOOLEAN :
           S3Op("list", path, fault, rolledUp, S3List(bucket, s3cfg, path, rolledUp, fault))
    /\ UNCHANGED <<pathVars, mgrVars, resVars, fsVars, lstVars, auxVars>>

S3Next ==
    \/ S3DiskRead
    \/ S3DiskCreateReadStream
    \/ S3DiskWrite
    \/ S3DiskCreateWriteStream
    \/ S3DiskDelete
    \/ S3DiskList

(***************************************************************************)
(* S3Disk.list request by request. Each await of listObjectsV2 is a point  *)
(* where the call waits; the backend answers as it likes: with a page      *)
(* that may or may not be truncated and may or may not carry a token, or   *)
(* with an error.                                                          *)
(***************************************************************************)
PagingPath == <<"d">>
PagingPrefix == <<"d", "/">>
PagingTokens == {NOTOKEN, 1, 2}
PagingResponses ==
    [Contents : {<<>>, <<<<"d", "/", "f">>>>},
     CommonPrefixes : {<<<<"d", "/", "s", "/">>>>},
     IsTruncated : BOOLEAN,
     NextContinuationToken : PagingTokens]

\* The raw listing so far with one more page: what the nested
\* rawListAllObjects calls return for the pages fetched one after another.
withPage(raw, page) ==
    IF raw.requests = <<>>
    THEN [error |-> page.error, files |-> page.files, directories |-> page.directories,
          requests |-> page.requests, responses |-> page.responses]
    ELSE restListAllObjects(raw, page)

NORAW ==
    [error |-> "", files |-> <<>>, directories |-> <<>>, requests |-> <<>>,
     responses |-> <<>>]

PagingInit ==
    paging = [phase |-> "idle", requests |-> <<>>, next |-> NOTOKEN, raw |-> NORAW,
              out |-> S3Result("", <<>>, <<>>, <<>>, <<>>, <<>>)]

\* list(path) is called: the first listSomeObjects sends its request.
ListCalled ==
    /\ paging.phase = "idle"
    /\ PagingPrefix = getKeyPrefix(s3cfg) \o sanitizeKeyPrefix(PagingPath)
    /\ paging' = [paging EXCEPT
           !.phase = "waiting",
           !.requests = <<[call |-> "listObjectsV2", key |-> PagingPrefix,
                           token |-> NOTOKEN]>>]
    /\ UNCHANGED <<pathVars, mgrVars, resVars, fsVars, lstVars, s3Vars, mem, callers, pipe, tmp>>

\* The backend answers the request in flight with a page.
PageArrives ==
    /\ paging.phase = "waiting"
    /\ \E response \in PagingResponses :
         \E page \in {listedPageOf(response, PagingPrefix,
                                   paging.requests[Len(paging.requests)])} :
           paging' = [paging EXCEPT
               !.phase = "returned",
               !.next = page.next,
               !.raw = withPage(@, page)]
    /\ UNCHANGED <<pathVars, mgrVars, resVars, fsVars, lstVars, s3Vars, mem, callers, pipe, tmp>>

\* The request in flight is rejected: list rejects with the same error.
RequestRejects ==
    /\ paging.phase = "waiting"
    /\ paging' = [paging EXCEPT
           !.phase = "failed",
           !.out = S3Result(UnknownCode, <<>>, <<>>, <<>>, paging.requests, <<>>)]
    /\ UNCHANGED <<pathVars, mgrVars, resVars, fsVars, lstVars, s3Vars, mem, callers, pipe, tmp>>

\* rawListAllObjects goes on after its await: the page has a next token, so
\* the next request is sent.
NextPageRequested ==
    /\ paging.phase = "returned"
    /\ paging.next # NOTOKEN
    /\ Len(paging.requests) < MaxRequests
    /\ paging' = [paging EXCEPT
           !.phase = "waiting",
           !.requests = Append(@, [call |-> "listObjectsV2", key |-> PagingPrefix,
                                   token |-> paging.next])]
    /\ UNCHANGED <<pathVars, mgrVars, resVars, fsVars, lstVars, s3Vars, mem, callers, pipe, tmp>>

\* rawListAllObjects goes on after its await: the page has no next token, so
\* the nested calls return and list resolves.
ListReturned ==
    /\ paging.phase = "returned"
    /\ paging.next = NOTOKEN
    /\ paging' = [paging EXCEPT
           !.phase = "done",
           !.out = listingOf(paging.raw, <<>>)]
    /\ UNCHANGED <<pathVars, mgrVars, resVars, fsVars, lstVars, s3Vars, mem, callers, pipe, tmp>>

PagingNext ==
    \/ ListCalled
    \/ PageArrives
    \/ RequestRejects
    \/ NextPageRequested
    \/ ListReturned

(***************************************************************************)
(* The callers of getDisk. A call is issued (the caller's code is scheduled *)
(* to run) and later runs; getDisk has no await and constructs no promise, *)
(* so a call that runs runs from its first line to its return with no      *)
(* other call in between.                                                  *)
(***************************************************************************)
Callers == 1..MaxCallers

\* A config in which default is an alias of foo, and one in which foo is an
\* alias of default and bar has an unknown driver.
CallerConfigs ==
    {[n \in DiskNames |-> IF n = "default" THEN Alias("foo")
                          ELSE Specification("memory")],
     [n \in DiskNames |-> IF n = "foo" THEN Alias("default")
                          ELSE IF n = "bar" THEN Specification("ftp")
                          ELSE Specification("local")]}

IDLECALLER == [pc |-> "idle", name |-> "", first |-> FALSE, raced |-> FALSE,
               id |-> 0, error |-> "", constructed |-> FALSE]

\* The name a caller's call resolves to.
ResolvedFor(name) == resolveDiskSpecification(config, name, DefaultMaxLookup)

CallersInit ==
    /\ config \in CallerConfigs
    /\ disks = EmptyRegistry
    /\ made = <<>>
    /\ calls = {}
    /\ lastCall = NOCALL
    /\ callers = [c \in Callers |-> IDLECALLER]

CallersKeep ==
    UNCHANGED <<config, calls, lastCall, pathVars, fsVars, lstVars, resVars, s3Vars,
                paging, mem, pipe, tmp>>

\* A caller is about to call getDisk(name). first: the call is a first-time
\* call, no instance is registered for the name it resolves to. raced: another
\* first-time call for the same resolved name is waiting to run as well.
Issue(c) ==
    /\ callers[c].pc = "idle"
    /\ \E name \in RequestNames :
        LET r == ResolvedFor(name)
            first == r.found /\ r.name \notin DOMAIN disks
            racers == {d \in Callers \ {c} :
                          /\ callers[d].pc = "called" /\ callers[d].first
                          /\ ResolvedFor(callers[d].name).name = r.name}
        IN  callers' =
                [d \in Callers |->
                    IF d = c
                    THEN [IDLECALLER EXCEPT !.pc = "called", !.name = name,
                                            !.first = first,
                                            !.raced = first /\ racers # {}]
                    ELSE IF first /\ d \in racers
                    THEN [callers[d] EXCEPT !.raced = TRUE]
                    ELSE callers[d]]
    /\ UNCHANGED <<disks, made>>
    /\ CallersKeep

\* The call runs: getDisk from its first line to its return.
Run(c) ==
    /\ callers[c].pc = "called"
    /\ \E out \in {getDiskOutcome(config, disks, made, callers[c].name, NOCLIENT)} :
        /\ Len(out.made) <= MaxMade
        /\ disks' = out.reg
        /\ made' = out.made
        /\ callers' = [callers EXCEPT ![c].pc = "returned", ![c].id = out.id,
                                      ![c].error = out.error,
                                      ![c].constructed = Len(out.made) > Len(made)]
    /\ CallersKeep

\* The caller is done with the disk it got.
Release(c) ==
    /\ callers[c].pc = "returned"
    /\ callers' = [callers EXCEPT ![c] = IDLECALLER]
    /\ UNCHANGED <<disks, made>>
    /\ CallersKeep

CallersNext == \E c \in Callers : Issue(c) \/ Run(c) \/ Release(c)

(***************************************************************************)
(* pipeStreams: readable.pipe(writable), and a promise settled by the      *)
(* listeners put on the stream that pipe() returns. The streams are        *)
(* node's: pipe() returns its destination, an emitted event runs its       *)
(* listeners before emit returns, and when the source ends pipe() ends the *)
(* destination, which then finishes unless it fails or is destroyed first. *)
(***************************************************************************)
ResolveEvents == {"finish", "close"}
RejectEvents == {"error"}
StreamErrors == {"E1", "E2"}

PENDING == [state |-> "pending", value |-> ""]

\* readable.pipe(writable): the stream it returns.
pipeResult(readable, writable) == writable

\* The listener of a resolve event and of a reject event (fulfilled is the
\* flag of the promise's executor).
onResolveEvent(p, resolveEvent) ==
    IF ~p.fulfilled
    THEN [p EXCEPT !.outcome = [state |-> "resolved", value |-> resolveEvent],
                   !.fulfilled = TRUE, !.settles = @ + 1]
    ELSE p

onRejectEvent(p, error) ==
    IF ~p.fulfilled
    THEN [p EXCEPT !.outcome = [state |-> "rejected", value |-> error],
                   !.fulfilled = TRUE, !.settles = @ + 1]
    ELSE p

\* stream.emit(event, error) on the stream `from`: the listeners pipeStreams
\* put on it, if it put any, run; the event is logged.
emit(p, from, event, error) ==
    LET q == [p EXCEPT !.events = Append(@, [from |-> from, event |-> event,
                                             error |-> error])]
    IN  IF from # p.resultStream THEN q
        ELSE IF event \in ResolveEvents THEN onResolveEvent(q, event)
        ELSE IF event \in RejectEvents THEN onRejectEvent(q, error)
        ELSE q

PipeInit ==
    pipe = [phase |-> "idle", resultStream |-> "", fulfilled |-> FALSE,
            outcome |-> PENDING, settles |-> 0, events |-> <<>>,
            source |-> "open", sink |-> "open", moved |-> 0]

PipeKeep ==
    UNCHANGED <<pathVars, mgrVars, fsVars, lstVars, resVars, s3Vars, paging, mem,
                callers, tmp>>

\* pipeStreams(readable, writable) is called: the executor of its promise
\* pipes and puts its listeners on the result.
PipeStreams ==
    /\ pipe.phase = "idle"
    /\ pipe' = [pipe EXCEPT !.phase = "piping",
                            !.resultStream = pipeResult("source", "sink")]
    /\ PipeKeep

Piping == pipe.phase = "piping" /\ Len(pipe.events) < MaxEvents

\* A chunk goes from the source into the sink.
ChunkMoves ==
    /\ pipe.phase = "piping" /\ pipe.source = "open" /\ pipe.sink = "open"
    /\ pipe.moved < MaxChunks
    /\ pipe' = [pipe EXCEPT !.moved = @ + 1]
    /\ PipeKeep

SourceEnds ==
    /\ Piping /\ pipe.source = "open"
    /\ pipe' = [emit(pipe, "source", "end", "") EXCEPT !.source = "ended"]
    /\ PipeKeep

SourceErrors ==
    /\ Piping /\ pipe.source = "open"
    /\ \E error \in StreamErrors :
           pipe' = [emit(pipe, "source", "error", error) EXCEPT !.source = "errored"]
    /\ PipeKeep

\* The sink, ended by pipe() after the source ended, has flushed.
SinkFinishes ==
    /\ pipe.phase = "piping" /\ pipe.source = "ended" /\ pipe.sink = "open"
    /\ pipe' = [emit(pipe, "sink", "finish", "") EXCEPT !.sink = "finished"]
    /\ PipeKeep

SinkErrors ==
    /\ Piping /\ pipe.sink \in {"open", "finished"}
    /\ \E error \in StreamErrors :
           pipe' = [emit(pipe, "sink", "error", error) EXCEPT !.sink = "errored"]
    /\ PipeKeep

\* The sink is closed: after it finished or failed, or destroyed by its owner.
SinkCloses ==
    /\ Piping /\ pipe.sink # "closed"
    /\ pipe' = [emit(pipe, "sink", "close", "") EXCEPT !.sink = "closed"]
    /\ PipeKeep

PipeNext ==
    \/ PipeStreams
    \/ ChunkMoves
    \/ SourceEnds
    \/ SourceErrors
    \/ SinkFinishes
    \/ SinkErrors
    \/ SinkCloses

(***************************************************************************)
(* withTempFile (utils) and Disk.withTempFile. tmp.file is the tmp          *)
(* package's: it makes a file with a new name and hands back the name and  *)
(* a callback that removes the file. Every call gets the next name.        *)
(***************************************************************************)
NOFILE == 0
TempErrors == {"ETMP", "NotFoundError", "EPIPE", "ECALLBACK"}

\* One call: who was called (via), with an execute callback or not, the
\* skipCleanup that withTempFile got, where the call is, the temp file's name,
\* how often execute (of withTempFile) and the caller's callback (of
\* Disk.withTempFile) were called, and what the promise settled to.
NewTempCall(via, hasExecute, skipCleanup) ==
    [via |-> via, hasExecute |-> hasExecute, skipCleanup |-> skipCleanup,
     phase |-> "creating", name |-> NOFILE, executes |-> 0, callbacks |-> 0,
     state |-> "pending", value |-> NOFILE, error |-> ""]

\* Disk.withTempFile(path, execute): withTempFile(<the download and then
\* execute>, !execute).
DiskSkipCleanup(hasExecute) == ~hasExecute

TempInit ==
    tmp = [calls |-> 0, files |-> {}, call |-> [phase |-> "none"]]

TempKeep ==
    UNCHANGED <<pathVars, mgrVars, fsVars, lstVars, resVars, s3Vars, paging, mem,
                callers, pipe>>

TempIdle == tmp.call.phase \in {"none", "settled"} /\ tmp.calls < MaxTempCalls

\* withTempFile(execute, skipCleanup) is called.
WithTempFile ==
    /\ TempIdle
    /\ \E skipCleanup \in BOOLEAN :
           tmp' = [tmp EXCEPT !.calls = @ + 1,
                              !.call = NewTempCall("utils", TRUE, skipCleanup)]
    /\ TempKeep

\* disk.withTempFile(path, execute) or disk.withTempFile(path) is called.
DiskWithTempFile ==
    /\ TempIdle
    /\ \E hasExecute \in BOOLEAN :
           tmp' = [tmp EXCEPT !.calls = @ + 1,
                              !.call = NewTempCall("disk", hasExecute,
                                                   DiskSkipCleanup(hasExecute))]
    /\ TempKeep

Rejected(call, error) ==
    [call EXCEPT !.phase = "settled", !.state = "rejected", !.error = error]

\* tmp.file calls back with the name: the file exists, and execute(name) is
\* called. The execute of Disk.withTempFile starts with the download.
TmpFileMade ==
    /\ tmp.call.phase = "creating"
    /\ tmp' = [tmp EXCEPT !.files = @ \cup {tmp.calls},
                          !.call.name = tmp.calls,
                          !.call.executes = @ + 1,
                          !.call.phase = IF tmp.call.via = "disk" THEN "download"
                                         ELSE "execute"]
    /\ TempKeep

\* tmp.file calls back with an error.
TmpFileFails ==
    /\ tmp.call.phase = "creating"
    /\ tmp' = [tmp EXCEPT !.call = Rejected(@, "ETMP")]
    /\ TempKeep

\* Disk.withTempFile: createReadStream and pipeStreams are through, and the
\* caller's callback, if there is one, is called.
Downloaded ==
    /\ tmp.call.phase = "download"
    /\ tmp' = [tmp EXCEPT !.call.phase = "execute",
                          !.call.callbacks = IF tmp.call.hasExecute THEN @ + 1 ELSE @]
    /\ TempKeep

\* What follows the await of execute(name) when it resolved.
afterExecute(t) ==
    IF ~t.call.skipCleanup
    THEN [t EXCEPT !.call.phase = "cleanup"]
    ELSE [t EXCEPT !.call.phase = "settled", !.call.state = "resolved",
                   !.call.value = t.call.name]

\* execute(name) resolved (for Disk.withTempFile: the callback, or the
\* download when there is none).
ExecuteResolves ==
    /\ tmp.call.phase = "execute"
    /\ tmp' = afterExecute(tmp)
    /\ TempKeep

\* execute(name) threw or rejected: createReadStream (NotFoundError), the
\* pipe, or the callback failed. The await throws out of withTempFile.
ExecuteRejects ==
    /\ tmp.call.phase \in {"download", "execute"}
    /\ \E error \in IF tmp.call.phase = "download" THEN {"NotFoundError", "EPIPE"}
                    ELSE IF tmp.call.hasExecute THEN {"ECALLBACK"} ELSE {} :
           tmp' = [tmp EXCEPT !.call = Rejected(@, error)]
    /\ TempKeep

\* cleanupCallback() has removed the file; withTempFile returns the name.
CleanedUp ==
    /\ tmp.call.phase = "cleanup"
    /\ tmp' = [tmp EXCEPT !.files = @ \ {tmp.call.name},
                          !.call.phase = "settled", !.call.state = "resolved",
                          !.call.value = tmp.call.name]
    /\ TempKeep

TempNext ==
    \/ WithTempFile
    \/ DiskWithTempFile
    \/ TmpFileMade
    \/ TmpFileFails
    \/ Downloaded
    \/ ExecuteResolves
    \/ ExecuteRejects
    \/ CleanedUp

(***************************************************************************)
(* MemoryDisk: an FSDisk on a memfs volume of its own, rooted at "/".      *)
(***************************************************************************)
\* MemoryDisk.getAsyncFsModule: a new Volume for the disk under construction.
\* The volumes that exist are a sequence, the fs module is the index of its
\* volume. The variant hands every disk the one volume of require('memfs').fs.
getAsyncFsModuleShared(volumes) ==
    IF volumes = <<>> THEN [volumes |-> <<EmptyVolume>>, fs |-> 1]
    ELSE [volumes |-> volumes, fs |-> 1]

getAsyncFsModule(volumes) ==
    [volumes |-> Append(volumes, EmptyVolume), fs |-> Len(volumes) + 1]

\* new MemoryDisk(config, name): the FSDisk constructor sets this.fs.
newMemoryDisk(volumes, name) ==
    LET m == getAsyncFsModule(volumes)
    IN  [volumes |-> m.volumes, disk |-> [name |-> name, fs |-> m.fs]]

\* MemoryDisk.getRootPath
MemRootPath == SEP

MemDiskNames == {"m1", "m2"}
UNNAMED == ""
MemPaths == {<<"", "a">>, <<"a", "b">>}
MemListPaths == {SEP, <<"", "a">>}
MemBodies == {<<>>, <<1>>}
\* memfs as far as the operations below can tell; only an unlink can tell
\* one from the other.
MemBackends ==
    {b \in Backends : b.notDir = "ENOTDIR" /\ b.collide = "ENOTDIR" /\ b.denied = ""}
MemBackendsOfLookup == {b \in MemBackends : b.unlinkDir = "EISDIR"}

NOMEMSTREAM == [fs |-> 0, path |-> NOPATH]
NOMEMOP == [op |-> "none", disk |-> 0, path |-> NOPATH, err |-> "", data |-> <<>>,
            listing |-> <<>>]
MemOp(op, d, p, out) ==
    [op |-> op, disk |-> d, path |-> p, err |-> out.err, data |-> out.data,
     listing |-> out.listing]

MemInit ==
    mem = [volumes |-> <<>>, disks |-> <<>>, registry |-> [n \in MemDiskNames |-> 0],
           stream |-> NOMEMSTREAM, ops |-> 0, last |-> NOMEMOP]

MemKeep == UNCHANGED <<pathVars, mgrVars, fsVars, lstVars, resVars, s3Vars, paging, callers, pipe, tmp>>

\* The volume behind disk d.
VolumeOf(m, d) == m.volumes[m.disks[d].fs]

\* mem after an operation of disk d that left its volume as v.
MemAfter(op, d, p, v, out) ==
    [mem EXCEPT !.volumes[mem.disks[d].fs] = v, !.ops = @ + 1,
                !.last = MemOp(op, d, p, out)]

\* DiskManager.getDisk(name) for a name configured with the memory driver:
\* the cached instance, or a new MemoryDisk that is registered.
MemGetDisk ==
    /\ \E name \in MemDiskNames :
        IF mem.registry[name] # 0
        THEN mem' = [mem EXCEPT !.last = [NOMEMOP EXCEPT !.op = "getDisk",
                                                         !.disk = mem.registry[name]]]
        ELSE /\ Len(mem.disks) < MaxDisks
             /\ \E n \in {newMemoryDisk(mem.volumes, name)} :
                    mem' = [mem EXCEPT !.volumes = n.volumes,
                                       !.disks = Append(@, n.disk),
                                       !.registry[name] = Len(mem.disks) + 1,
                                       !.last = [NOMEMOP EXCEPT !.op = "getDisk",
                                                                !.disk = Len(mem.disks) + 1]]
    /\ MemKeep

\* new MemoryDisk(config) by the caller, without a manager.
MemNewDisk ==
    /\ Len(mem.disks) < MaxDisks
    /\ \E n \in {newMemoryDisk(mem.volumes, UNNAMED)} :
           mem' = [mem EXCEPT !.volumes = n.volumes,
                              !.disks = Append(@, n.disk),
                              !.last = [NOMEMOP EXCEPT !.op = "new",
                                                       !.disk = Len(mem.disks) + 1]]
    /\ MemKeep

MemWrite ==
    /\ mem.ops < MaxMemOps
    /\ \E d \in 1..Len(mem.disks), p \in MemPaths, body \in MemBodies, be \in MemBackendsOfLookup :
        \E out \in {FSWrite(VolumeOf(mem, d), MemRootPath, p, body, "buffer", be)} :
            mem' = MemAfter("write", d, p, out.vol, out)
    /\ MemKeep

\* createWriteStream: the directories are made and a stream on the disk's fs
\* module is handed out.
MemCreateWriteStream ==
    /\ mem.ops < MaxMemOps
    /\ mem.stream = NOMEMSTREAM
    /\ \E d \in 1..Len(mem.disks), p \in MemPaths, be \in MemBackendsOfLookup :
        \E out \in {FSCreateWriteStream(VolumeOf(mem, d), MemRootPath, p, be)} :
            mem' = [MemAfter("createWriteStream", d, p, out.vol, out) EXCEPT
                       !.stream = IF out.err = ""
                                  THEN [fs |-> mem.disks[d].fs,
                                        path |-> FullPathOf(MemRootPath, p)]
                                  ELSE NOMEMSTREAM]
    /\ MemKeep

\* writeStream.end(body): the bytes go to the volume the stream was made on.
MemStreamEnd ==
    /\ mem.stream # NOMEMSTREAM
    /\ \E body \in MemBodies, be \in MemBackendsOfLookup :
        \E w \in {writeFile(mem.volumes[mem.stream.fs], mem.stream.path, body, be)} :
            mem' = [mem EXCEPT !.volumes[mem.stream.fs] = w.vol,
                               !.stream = NOMEMSTREAM,
                               !.last = [NOMEMOP EXCEPT !.op = "end"]]
    /\ MemKeep

MemDelete ==
    /\ mem.ops < MaxMemOps
    /\ \E d \in 1..Len(mem.disks), p \in MemPaths, be \in MemBackends :
        \E out \in {FSDelete(VolumeOf(mem, d), MemRootPath, p, be)} :
            mem' = MemAfter("delete", d, p, out.vol, out)
    /\ MemKeep

MemRead ==
    /\ \E d \in 1..Len(mem.disks), p \in MemPaths, be \in MemBackendsOfLookup :
        \E out \in {FSRead(VolumeOf(mem, d), MemRootPath, p, be)} :
            mem' = [mem EXCEPT !.last = MemOp("read", d, p, out)]
    /\ MemKeep

MemList ==
    /\ \E d \in 1..Len(mem.disks), p \in MemListPaths, be \in MemBackendsOfLookup :
        \E out \in {FSList(VolumeOf(mem, d), MemRootPath, p, be)} :
            mem' = [mem EXCEPT !.last = MemOp("list", d, p, out)]
    /\ MemKeep

MemNext ==
    \/ MemGetDisk
    \/ MemNewDisk
    \/ MemWrite
    \/ MemCreateWriteStream
    \/ MemStreamEnd
    \/ MemDelete
    \/ MemRead
    \/ MemList

(***************************************************************************)
(* The specifications. Each is about one part of the library; the          *)
(* variables of the other parts stay as they start.                        *)
(***************************************************************************)
PathIdle == pathIn = NULL /\ rootIn = SEP /\ pathOut = NOPATH
MgrIdle ==
    /\ config = [n \in DiskNames |-> Alias("nope")]
    /\ disks = EmptyRegistry
    /\ made = <<>>
    /\ calls = {}
    /\ lastCall = NOCALL
FSIdle == vol = EmptyVolume /\ last = NOOP /\ ops = 0 /\ wstream = NOSTREAM
ListIdle == lst = IDLE
ResIdle == resolving = NORES
S3Idle ==
    /\ bucket = <<>>
    /\ s3last = NOS3OP
    /\ s3ops = 0
    /\ s3cfg = [root |-> <<>>, pagingLimit |-> 0]
\* A part of the library that is not in use.
UNUSED == <<>>
AuxIdle ==
    paging = UNUSED /\ mem = UNUSED /\ callers = UNUSED /\ pipe = UNUSED /\ tmp = UNUSED
RestIdle == ResIdle /\ S3Idle /\ AuxIdle

InitPath == PathInit /\ MgrIdle /\ FSIdle /\ ListIdle /\ RestIdle
NextPath == ResolvePath
SpecPath == InitPath /\ [][NextPath]_vars

InitManager == MgrInit /\ PathIdle /\ FSIdle /\ ListIdle /\ RestIdle
NextManager == GetDisk
SpecManager == InitManager /\ [][NextManager]_vars

InitFS == FSInit /\ pathIn = NULL /\ pathOut = NOPATH /\ MgrIdle /\ ListIdle /\ RestIdle
NextFS == FSNext
SpecFS == InitFS /\ [][NextFS]_vars

InitList == ListInit /\ PathIdle /\ MgrIdle /\ FSIdle /\ RestIdle
NextList == ListNext
SpecList == InitList /\ [][NextList]_vars

InitResolve == ResInit /\ PathIdle /\ MgrIdle /\ FSIdle /\ ListIdle /\ S3Idle /\ AuxIdle
NextResolve == Resolve
SpecResolve == InitResolve /\ [][NextResolve]_vars

InitS3 == S3Init /\ PathIdle /\ MgrIdle /\ FSIdle /\ ListIdle /\ ResIdle /\ AuxIdle
NextS3 == S3Next
SpecS3 == InitS3 /\ [][NextS3]_vars

InitCallers ==
    /\ CallersInit /\ paging = UNUSED /\ mem = UNUSED /\ pipe = UNUSED /\ tmp = UNUSED
    /\ PathIdle /\ FSIdle /\ ListIdle /\ ResIdle /\ S3Idle
NextCallers == CallersNext
SpecCallers == InitCallers /\ [][NextCallers]_vars

InitMemory ==
    /\ MemInit /\ paging = UNUSED /\ callers = UNUSED /\ pipe = UNUSED /\ tmp = UNUSED
    /\ PathIdle /\ MgrIdle /\ FSIdle /\ ListIdle /\ ResIdle /\ S3Idle
NextMemory == MemNext
SpecMemory == InitMemory /\ [][NextMemory]_vars

InitTemp ==
    /\ TempInit /\ paging = UNUSED /\ mem = UNUSED /\ callers = UNUSED /\ pipe = UNUSED
    /\ PathIdle /\ MgrIdle /\ FSIdle /\ ListIdle /\ ResIdle /\ S3Idle
NextTemp == TempNext
SpecTemp == InitTemp /\ [][NextTemp]_vars

\* A sink that pipe() has ended finishes, unless it fails or is closed first.
InitPipe ==
    /\ PipeInit /\ paging = UNUSED /\ mem = UNUSED /\ callers = UNUSED /\ tmp = UNUSED
    /\ PathIdle /\ MgrIdle /\ FSIdle /\ ListIdle /\ ResIdle /\ S3Idle
NextPipe == PipeNext
SpecPipe == InitPipe /\ [][NextPipe]_vars /\ WF_vars(SinkFinishes)

\* The code after an await runs once the awaited promise has settled.
InitPaging ==
    /\ PagingInit /\ mem = UNUSED /\ callers = UNUSED /\ pipe = UNUSED /\ tmp = UNUSED
    /\ PathIdle /\ MgrIdle /\ FSIdle /\ ListIdle /\ ResIdle /\ S3Idle
NextPaging == PagingNext
SpecPaging ==
    InitPaging /\ [][NextPaging]_vars
        /\ WF_vars(NextPageRequested) /\ WF_vars(ListReturned)

(***************************************************************************)
(* The properties.                                                         *)
(***************************************************************************)

ResolvedName(name) == resolveDiskSpecification(config, name, DefaultMaxLookup).name

\* C2: successful getDisk calls whose names resolve to the same name returned
\* the identical instance, calls that resolve to different names returned
\* different instances, and no two instances were constructed for one name.
C2_OneInstancePerResolvedName ==
    /\ \A c1, c2 \in calls :
           (c1.error = "" /\ c2.error = "") =>
               ((ResolvedName(c1.name) = ResolvedName(c2.name)) <=> (c1.id = c2.id))
    /\ \A i, j \in 1..Len(made) : made[i].name = made[j].name => i = j

\* A disk was got under its own name and under an alias, another disk too.
C2_Witness ==
    \E c1, c2, c3 \in calls :
        /\ c1.error = "" /\ c2.error = "" /\ c3.error = ""
        /\ c1.name # c2.name /\ c1.id = c2.id
        /\ c3.id # c1.id
        /\ config[c2.name].kind = "alias"

\* C3: every registry key is a resolved name (a config entry that holds a
\* specification), the disk under a key reports that key from getName()
\* whatever name it was requested by, and an entry is never removed or
\* replaced.
C3_RegistryKeys ==
    /\ \A k \in DOMAIN disks :
           /\ k \in DOMAIN config /\ config[k].kind = "spec"
           /\ made[disks[k]].name = k
    /\ \A c \in calls :
           c.error = "" => /\ made[c.id].name = ResolvedName(c.name)
                           /\ disks[ResolvedName(c.name)] = c.id

C3_RegistryStable ==
    \A k \in DOMAIN disks : k \in DOMAIN disks' /\ disks'[k] = disks[k]

IsOp(op) == ops' = ops + 1 /\ last'.op = op

\* C4: right after write(P, B) succeeded, read(P) returns exactly B, also
\* when P held a longer body before.
C4_RoundTripStep ==
    (IsOp("write") /\ last'.err = "") =>
        \A be \in BackendsOfLookup :
            LET r == FSRead(vol', rootIn, last'.path, be)
            IN  r.err = "" /\ r.data = last'.body

C4_RoundTrip == [][C4_RoundTripStep]_vars

\* A file of two bytes was overwritten with one byte.
C4_Witness ==
    /\ last.op = "write" /\ last.err = ""
    /\ last.was.type = "file" /\ Len(last.was.data) = 2
    /\ Len(last.body) = 1

\* The entry of the listed directory that a listing object names.
EntryIndex(l) == CHOOSE i \in 1..Len(EntryNames) : EntryNames[i] = l.name[1]

\* C5: a listing has its Directory-typed entries before its File-typed ones
\* and each group in the order the backend enumerated the entries, in
\* whatever order the stats settled.
C5_ListingOrder ==
    lst.phase = "done" =>
        \A i, j \in 1..Len(lst.listing) :
            i < j =>
                /\ ~(lst.listing[i].type = File /\ lst.listing[j].type = Directory)
                /\ (lst.listing[i].type = lst.listing[j].type =>
                        EntryIndex(lst.listing[i]) < EntryIndex(lst.listing[j]))

\* A file enumerated before two directories, the stats settling last first.
C5_Witness ==
    /\ lst.phase = "done"
    /\ lst.variant = "FSDisk"
    /\ lst.entries = <<"file", "dir", "dir">>
    /\ lst.order = <<3, 2, 1>>
    /\ Len(lst.listing) = 3

\* The listing object the entry i of the listed directory should give: a
\* file or a link to a file its bare name as a File, a directory or a link to
\* a directory its name and one separator as a Directory.
ExpectedListing(i) ==
    IF lst.entries[i] \in {"file", "linkFile"} THEN Listing(File, <<EntryNames[i]>>)
    ELSE IF lst.entries[i] \in {"dir", "linkDir"}
    THEN Listing(Directory, <<EntryNames[i], "">>)
    ELSE NOLISTING

InListing(l) == \E k \in 1..Len(lst.listing) : lst.listing[k] = l

\* C6: list() of FSDisk and of LocalDisk reports every regular file as a File
\* with its bare name, every directory as a Directory with exactly one
\* trailing '/', and every symbolic link as its resolved target.
C6_ListingTypesAndNames ==
    lst.phase = "done" =>
        /\ \A i \in 1..Len(lst.entries) :
               ExpectedListing(i) # NOLISTING => InListing(ExpectedListing(i))
        /\ \A k \in 1..Len(lst.listing) :
               \E i \in 1..Len(lst.entries) : lst.listing[k] = ExpectedListing(i)

\* The same for FSDisk alone, where it holds.
C6_FSDiskListingTypesAndNames ==
    lst.variant = "FSDisk" => C6_ListingTypesAndNames

\* The entries whose stat fails with something other than not-found.
OtherStatFailures ==
    {i \in 1..Len(lst.entries) : statOfEntry(lst.entries[i]).err \notin {"", "ENOENT"}}

\* C7: a link whose target is missing does not fail list(): the listing has
\* every other entry and not the link, what is neither file nor directory is
\* dropped too, and list() fails only with the error of a stat that failed
\* otherwise.
C7_MissingTargetOmitted ==
    /\ lst.phase = "failed" =>
           \E i \in OtherStatFailures : lst.err = statOfEntry(lst.entries[i]).err
    /\ lst.phase = "done" =>
           /\ OtherStatFailures = {}
           /\ Len(lst.listing) =
                  Cardinality({i \in 1..Len(lst.entries) :
                                   lst.entries[i] \in {"file", "dir", "linkFile", "linkDir"}})
           /\ \A k \in 1..Len(lst.listing) :
                  lst.entries[EntryIndex(lst.listing[k])]
                      \in {"file", "dir", "linkFile", "linkDir"}

\* The same for LocalDisk alone, where it holds.
C7_LocalDiskMissingTargetOmitted ==
    lst.variant = "LocalDisk" => C7_MissingTargetOmitted

\* The names of the full path of the last operation.
LastNames == NamesOf(FullPathOf(rootIn, last.path))

\* C8 (state part): a write or createWriteStream calls mkdirp on the
\* directory of the full path before it calls the write primitive, and when
\* it succeeded every directory above the target exists.
C8_DirectoriesFirst ==
    last.op \in {"write", "createWriteStream"} =>
        /\ last.prims[1] = Prim("mkdirp", dirname(FullPathOf(rootIn, last.path)))
        /\ \A k \in 2..Len(last.prims) :
               last.prims[k].fn \in {"writeFile", "createWriteStream"}
        /\ last.err = "" =>
               \A i \in 0..(Len(LastNames) - 1) :
                   /\ Prefix(LastNames, i) \in DOMAIN vol
                   /\ vol[Prefix(LastNames, i)].type = "dir"

\* The backend be reported EACCES to the write of pathOnDisk in volume v, in
\* the step named: "mkdirp" for the making of the directories, "writeFile"
\* for the writing of the file.
DeniedIn(step, v, rootPath, pathOnDisk, body, be) ==
    LET fullPath == FullPathOf(rootPath, pathOnDisk)
        m == mkdirp(v, dirname(fullPath), be)
    IN  IF step = "mkdirp" THEN m.err = "EACCES"
        ELSE m.err = "" /\ writeFile(m.vol, fullPath, body, be).err = "EACCES"

\* The step is the write of last'.path on the backend be.
IsWriteOn(be) ==
    /\ IsOp("write")
    /\ \E out \in {FSWrite(vol, rootIn, last'.path, last'.body, last'.kind, be)} :
           /\ vol' = out.vol
           /\ last'.err = out.err
           /\ last'.prims = out.prims

\* C8 (scenario): after write("a/b/c", body) on an empty disk, list("a/b") is
\* exactly [c as a File] and list("a") is exactly [b/ as a Directory]. The
\* scenario is that of a backend which permits the write.
C8_ScenarioStep ==
    (/\ \E be \in BackendsOfWrite : be.denied = "" /\ IsWriteOn(be)
     /\ last'.path = <<"a", "b", "c">>
     /\ vol = WithDirs(EmptyVolume, NamesOf(rootIn))) =>
        /\ last'.err = ""
        /\ \A be \in BackendsOfLookup :
               /\ FSList(vol', rootIn, <<"a", "b">>, be).err = ""
               /\ FSList(vol', rootIn, <<"a", "b">>, be).listing = <<Listing(File, <<"c">>)>>
               /\ FSList(vol', rootIn, <<"a">>, be).err = ""
               /\ FSList(vol', rootIn, <<"a">>, be).listing = <<Listing(Directory, <<"b", "">>)>>

\* C8: write and createWriteStream create every missing directory of the
\* path before the file is written or the stream is opened.
C8_IntermediateDirectories == [](C8_DirectoriesFirst) /\ [][C8_ScenarioStep]_vars

\* The first operation on the empty disk rooted at /r wrote a/b/c.
C8_Witness ==
    /\ ops = 1
    /\ rootIn = <<"", "r">>
    /\ last.op = "write" /\ last.path = <<"a", "b", "c">> /\ last.err = ""
    /\ last.was = NONODE
    /\ <<"r", "a", "b", "c">> \in DOMAIN vol

\* Whether a component above the target exists in v as a non-directory.
LeadingCollides(v, names) ==
    \E i \in 0..(Len(names) - 1) :
        Prefix(names, i) \in DOMAIN v /\ v[Prefix(names, i)].type # "dir"

TargetIsDirectory(v, names) == names \in DOMAIN v /\ v[names].type = "dir"

\* C9: write(P, body) fails with NotWritableDestination when a leading
\* component of P is an existing non-directory or P is an existing
\* directory; on a leading collision the write primitive is not invoked, and
\* in both cases the volume is as it was.
C9_NotWritableStep ==
    IsOp("write") =>
        LET names == NamesOf(FullPathOf(rootIn, last'.path))
        IN  /\ (LeadingCollides(vol, names) \/ TargetIsDirectory(vol, names)) =>
                   /\ last'.err = "NotWritableDestinationError"
                   /\ last'.errPath = last'.path
                   /\ vol' = vol
            /\ LeadingCollides(vol, names) =>
                   \A k \in 1..Len(last'.prims) :
                       last'.prims[k].fn \notin {"writeFile", "createWriteStream"}

C9_NotWritableDestination == [][C9_NotWritableStep]_vars

\* A write below a regular file was refused after mkdirp alone.
C9_Witness ==
    /\ last.op = "write"
    /\ last.err = "NotWritableDestinationError"
    /\ Len(last.prims) = 1
    /\ \E i \in 1..(Len(LastNames) - 1) :
           Prefix(LastNames, i) \in DOMAIN vol /\ vol[Prefix(LastNames, i)].type = "file"

\* C10: delete(P) fails with NotFound when P does not exist and with
\* NotAFile when P is a directory, and the volume is as it was.
C10_DeleteStep ==
    IsOp("delete") =>
        LET names == NamesOf(FullPathOf(rootIn, last'.path))
        IN  /\ names \notin DOMAIN vol =>
                   /\ last'.err = "NotFoundError"
                   /\ last'.errPath = last'.path
                   /\ vol' = vol
            /\ TargetIsDirectory(vol, names) =>
                   /\ last'.err = "NotAFileError"
                   /\ last'.errPath = last'.path
                   /\ vol' = vol

C10_DeleteErrors == [][C10_DeleteStep]_vars

\* C11: a successful delete(P) removes exactly the file P: afterwards
\* read(P) fails with NotFound, the listing of P's directory has no entry
\* for P, and every other file and directory is as it was.
C11_DeleteStep ==
    (IsOp("delete") /\ last'.err = "") =>
        LET full == FullPathOf(rootIn, last'.path)
            names == NamesOf(full)
            parent == Prefix(names, Len(names) - 1)
        IN  /\ names \in DOMAIN vol /\ vol[names].type = "file"
            /\ DOMAIN vol' = DOMAIN vol \ {names}
            /\ \A q \in DOMAIN vol' : vol'[q] = vol[q]
            /\ \A be \in BackendsOfLookup :
                   /\ FSRead(vol', rootIn, last'.path, be).err = "NotFoundError"
                   /\ readdir(vol', dirname(full), be).err = ""
                   /\ \A i \in 1..Len(readdir(vol', dirname(full), be).names) :
                          readdir(vol', dirname(full), be).names[i] # names[Len(names)]

C11_DeleteRemovesExactlyOne == [][C11_DeleteStep]_vars

\* The file a was deleted while the file b and its two bytes stayed.
C11_Witness ==
    /\ last.op = "delete" /\ last.err = ""
    /\ last.path = <<"", "a">>
    /\ last.was.type = "file"
    /\ Append(NamesOf(rootIn), "a") \notin DOMAIN vol
    /\ Append(NamesOf(rootIn), "b") \in DOMAIN vol
    /\ vol[Append(NamesOf(rootIn), "b")] = FileNode(<<0, 1>>)

\* The names of the full path of the operation a step performs.
StepNames == NamesOf(FullPathOf(rootIn, last'.path))

\* C12: read and createReadStream fail with NotFound when the path does not
\* exist and with NotAFile when it is a directory; list fails with NotFound
\* when the directory does not exist and with NotADirectory when the path is
\* not a directory; each error carries the virtual path that was passed.
C12_LookupStep ==
    /\ (IsOp("read") \/ IsOp("createReadStream")) =>
           /\ StepNames \notin DOMAIN vol =>
                  last'.err = "NotFoundError" /\ last'.errPath = last'.path
           /\ TargetIsDirectory(vol, StepNames) =>
                  last'.err = "NotAFileError" /\ last'.errPath = last'.path
    /\ IsOp("list") =>
           /\ (StepNames \notin DOMAIN vol /\ ~LeadingCollides(vol, StepNames)) =>
                  last'.err = "NotFoundError" /\ last'.errPath = last'.path
           /\ (StepNames \notin DOMAIN vol /\ LeadingCollides(vol, StepNames)) =>
                  /\ last'.err \in {"NotFoundError", "NotADirectoryError"}
                  /\ last'.errPath = last'.path
           /\ (StepNames \in DOMAIN vol /\ vol[StepNames].type = "file") =>
                  last'.err = "NotADirectoryError" /\ last'.errPath = last'.path

C12_LookupErrors == [][C12_LookupStep]_vars

\* The same without the paths that lead through a regular file, where it holds.
C12_LookupErrorsBelowDirectories ==
    [][LeadingCollides(vol, StepNames) \/ C12_LookupStep]_vars

\* C14: createReadStream stats the path before it opens a stream and opens
\* one only for a regular file that exists; a call that fails with NotFound
\* or NotAFile has opened no stream and left the volume as it was.
C14_ReadStreamStep ==
    IsOp("createReadStream") =>
        /\ last'.prims[1] = Prim("stat", FullPathOf(rootIn, last'.path))
        /\ (Len(last'.prims) > 1) =>
               /\ Len(last'.prims) = 2
               /\ last'.prims[2] = Prim("createReadStream", FullPathOf(rootIn, last'.path))
               /\ StepNames \in DOMAIN vol /\ vol[StepNames].type = "file"
        /\ last'.err \in {"NotFoundError", "NotAFileError"} =>
               Len(last'.prims) = 1 /\ vol' = vol
        /\ (StepNames \notin DOMAIN vol \/ TargetIsDirectory(vol, StepNames)) =>
               last'.err # "" /\ vol' = vol
        /\ DOMAIN vol' = DOMAIN vol

C14_StatBeforeStream == [][C14_ReadStreamStep]_vars

\* A createReadStream of a path that does not exist failed after the stat
\* alone, and nothing was created.
C14_Witness ==
    /\ last.op = "createReadStream"
    /\ last.err = "NotFoundError"
    /\ last.was = NONODE
    /\ Len(last.prims) = 1
    /\ LastNames \notin DOMAIN vol

C24_DeniedStep(steps) ==
    \A be \in BackendsOfWrite, step \in steps :
        (IsWriteOn(be)
            /\ DeniedIn(step, vol, rootIn, last'.path, last'.body, be)) =>
            /\ last'.err = "NotWritableDestinationError"
            /\ last'.errPath = last'.path

\* C24 as stated: a write(P) to which the backend reports EACCES, in the
\* making of the directories or in the writing of the file, fails with
\* NotWritableDestination carrying P.
C24_PermissionDenied == [][C24_DeniedStep({"mkdirp", "writeFile"})]_vars

\* C24, the part that holds: a write(P) to which the backend reports EACCES
\* in the writing of the file fails with NotWritableDestination carrying P.
C24_PermissionDeniedOnFileWrite == [][C24_DeniedStep({"writeFile"})]_vars

\* A write was refused the making of a directory and the caller got the
\* backend's EACCES as it came.
C24_RawDenial ==
    /\ last.op = "write"
    /\ last.err = "EACCES"
    /\ Len(last.prims) = 1

\* The alias hops from the name a call of resolveDiskSpecification starts at
\* to the end of the chain.
ResHops == resolving.len - resolving.start

\* C15 as stated: a name that reaches a specification after k hops resolves
\* when k <= maxLookup, and gives null when k > maxLookup or the chain does
\* not reach a specification.
C15_ResolvesUpToMaxHops ==
    resolving.done =>
        IF resolving.end = "spec" /\ ResHops <= resolving.maxLookup
        THEN resolving.out = [name |-> ChainName(resolving.len), found |-> TRUE, driver |-> "memory"]
        ELSE resolving.out = NOSPEC

\* C15, amended: a name that reaches a specification after k hops resolves
\* to it, under its resolved name, when k < maxLookup (maxLookup bounds the
\* lookups, the first included), and gives null when k >= maxLookup or the
\* chain ends in an absent name or a cycle.
C15_ResolvesBelowMaxLookup ==
    resolving.done =>
        IF resolving.end = "spec" /\ ResHops < resolving.maxLookup
        THEN resolving.out = [name |-> ChainName(resolving.len), found |-> TRUE, driver |-> "memory"]
        ELSE resolving.out = NOSPEC

\* Nine hops resolved with the default budget of ten.
C15_Witness ==
    /\ resolving.done
    /\ resolving.maxLookup = DefaultMaxLookup
    /\ resolving.end = "spec" /\ ResHops = 9
    /\ resolving.out.found /\ resolving.out.name = ChainName(resolving.len) /\ resolving.start # resolving.len

\* The names one alias hop away from the names of S, and the names within
\* three hops of n (a config of three names has no longer chain).
AliasStep(S) ==
    S \cup {config[m].to : m \in {x \in S \cap DOMAIN config : config[x].kind = "alias"}}
AliasClosure(n) == AliasStep(AliasStep(AliasStep({n})))

\* A name whose chain reaches no specification: absent, dangling or on a cycle.
Unresolvable(n) ==
    \A m \in AliasClosure(n) : m \notin DOMAIN config \/ config[m].kind = "alias"
OnCycle(n) ==
    /\ n \in DOMAIN config /\ config[n].kind = "alias"
    /\ n \in AliasClosure(config[n].to)

\* C16: for every config, name resolution ends within the lookup budget, and
\* getDisk on a name that is absent, dangling or on an alias cycle fails
\* with DiskNotFound carrying the requested name.
C16_ResolutionTerminates ==
    /\ \A n \in RequestNames :
           resolveDiskSpecificationCalls(config, n, DefaultMaxLookup) <= DefaultMaxLookup + 1
    /\ \A c \in calls :
           Unresolvable(c.name) <=> (c.error = "DiskNotFound" /\ c.errName = c.name)

\* getDisk("foo") with foo -> bar -> foo failed with DiskNotFound("foo").
C16_Witness ==
    /\ config["foo"] = Alias("bar") /\ config["bar"] = Alias("foo")
    /\ OnCycle("foo")
    /\ resolveDiskSpecificationCalls(config, "foo", DefaultMaxLookup) = DefaultMaxLookup + 1
    /\ \E c \in calls : c.name = "foo" /\ c.error = "DiskNotFound" /\ c.errName = "foo"

\* The driver of the specification a name resolves to.
ResolvedDriver(name) == resolveDiskSpecification(config, name, DefaultMaxLookup).driver

\* C17 (state part): a call fails with BadDriver exactly when the resolved
\* specification's driver is missing or none of local, memory, s3.
C17_BadDriverCalls ==
    \A c \in calls :
        (~Unresolvable(c.name) /\ ResolvedDriver(c.name) \notin DiskDriver)
            <=> (c.error = "BadDriver" /\ c.errName = ResolvedName(c.name))

\* C17 (step part): a call that fails registers and constructs nothing, and
\* a call for a registered name returns the registered disk.
C17_FailedCallStep ==
    /\ lastCall'.error # "" => (disks' = disks /\ made' = made)
    /\ (lastCall'.error = "" /\ ResolvedName(lastCall'.name) \in DOMAIN disks) =>
           lastCall'.id = disks[ResolvedName(lastCall'.name)]

\* C17: BadDriver for a missing or unknown driver; failed calls leave the
\* registry as it was.
C17_BadDriver == [](C17_BadDriverCalls) /\ [][C17_FailedCallStep]_vars

\* A call failed with BadDriver for a specification without a driver while a
\* disk was registered.
C17_Witness ==
    /\ lastCall.error = "BadDriver"
    /\ ResolvedDriver(lastCall.name) = NODRIVER
    /\ DOMAIN disks # {}
    /\ \E c \in calls : c.error = "" /\ disks[ResolvedName(c.name)] = c.id

\* C18: the options of a getDisk call take effect only when the call
\* constructs the disk: the new disk has the s3Client of that call (an S3Disk)
\* and no disk constructed earlier ever changes, whatever a later call passes.
C18_FirstOptionsStep ==
    /\ \A i \in 1..Len(made) : i \in 1..Len(made') /\ made'[i] = made[i]
    /\ Len(made') > Len(made) =>
           /\ Len(made') = Len(made) + 1
           /\ lastCall'.id = Len(made')
           /\ made'[Len(made')].client =
                  IF made'[Len(made')].driver = "s3" THEN lastCall'.client ELSE NOCLIENT
    /\ (lastCall'.error = "" /\ Len(made') = Len(made)) =>
           /\ lastCall'.id \in 1..Len(made)
           /\ made'[lastCall'.id].name = ResolvedName(lastCall'.name)

C18_FirstOptionsWin == [][C18_FirstOptionsStep]_vars

\* An S3Disk constructed with the default client was requested again through
\* an alias with clientA, and still has the default client.
C18_Witness ==
    /\ lastCall.error = "" /\ lastCall.client = "clientA"
    /\ config[lastCall.name].kind = "alias"
    /\ made[lastCall.id].driver = "s3"
    /\ made[lastCall.id].client = NOCLIENT

\* The last S3Disk operation had one of its requests rejected with an error
\* code the library does not know.
S3FaultHit == s3last.fault # 0 /\ Len(s3last.out.requests) >= s3last.fault

\* C13: a backend error that matches no known signal reaches the caller as
\* that same error; the operation never succeeds in its place. Stated for
\* every S3Disk operation.
C13_UnknownErrorsPropagate ==
    S3FaultHit => (s3last.out.error = UnknownCode /\ s3last.out.bucket = s3last.was)

\* What holds instead: every S3Disk operation but read passes the error on.
C13_UnknownErrorsPropagateExceptRead ==
    (S3FaultHit /\ s3last.op # "read") =>
        (s3last.out.error = UnknownCode /\ s3last.out.bucket = s3last.was)

\* The key prefix the last list() asked the bucket for, and the names the
\* bucket holds directly below it: files, and directories with their '/'.
S3Prefix == getKeyPrefix(s3cfg) \o sanitizeKeyPrefix(s3last.path)
S3ExpectedNames ==
    {dropFirst(listedItem(k, S3Prefix).key, Len(S3Prefix)) :
        k \in {x \in DOMAIN s3last.was : startsWith(x, S3Prefix) /\ x # S3Prefix}}
S3ListedNames == {s3last.out.value[i].name : i \in 1..Len(s3last.out.value)}
S3Listed == s3last.op = "list" /\ s3last.out.error = ""

\* C19: a listing the backend returned over several pages has exactly the
\* expected entries, each with the query prefix trimmed from its name,
\* whatever the page size.
C19_PaginationComplete ==
    (S3Listed /\ Len(s3last.out.requests) > 1) =>
        /\ S3ListedNames = S3ExpectedNames
        /\ Len(s3last.out.value) = Cardinality(S3ExpectedNames)

\* What holds instead: the same for a prefix without a character that means
\* something in a regular expression.
C19_PaginationCompleteLiteralPrefix ==
    (S3Listed /\ \A i \in 1..Len(S3Prefix) : S3Prefix[i] # "+") =>
        /\ S3ListedNames = S3ExpectedNames
        /\ Len(s3last.out.value) = Cardinality(S3ExpectedNames)

\* The keys and common prefixes of all pages of the last list(), in the order
\* the backend returned them, under the names the listing gives them.
RECURSIVE S3Returned(_, _)
S3Returned(responses, field) ==
    IF responses = <<>> THEN <<>>
    ELSE Head(responses)[field] \o S3Returned(Tail(responses), field)
S3ReturnedNames(field) ==
    LET keys == S3Returned(s3last.out.responses, field)
    IN  [i \in 1..Len(keys) |-> trimPrefix(keys[i], S3Prefix)]
FirstReturned(names, name) ==
    CHOOSE i \in 1..Len(names) : names[i] = name /\ \A j \in 1..(i - 1) : names[j] # name
S3Group(type) == IF type = Directory THEN "CommonPrefixes" ELSE "Contents"

\* Names at most once, directories first, each group in first-returned order.
S3ListingOrdered ==
    LET l == s3last.out.value
    IN  \A i, j \in 1..Len(l) :
            i < j =>
                /\ l[i].name # l[j].name
                /\ ~(l[i].type = File /\ l[j].type = Directory)
                /\ l[i].type = l[j].type =>
                       FirstReturned(S3ReturnedNames(S3Group(l[i].type)), l[i].name)
                           < FirstReturned(S3ReturnedNames(S3Group(l[j].type)), l[j].name)

\* An entry of the listing that stands for the directory marker, the object
\* whose key is the query prefix itself.
S3MarkerListed ==
    /\ S3Prefix \in DOMAIN s3last.was
    /\ \E i \in 1..Len(s3last.out.value) :
           /\ s3last.out.value[i].type = File
           /\ s3last.out.value[i].name = trimPrefix(S3Prefix, S3Prefix)
           /\ \A k \in (DOMAIN s3last.was) \ {S3Prefix} :
                  trimPrefix(k, S3Prefix) # s3last.out.value[i].name

\* C20: list returns each name at most once, Directory entries before File
\* entries, each group in the order the backend first returned its names,
\* and does not list the directory marker of the listed prefix.
C20_ListingNormalised == S3Listed => (S3ListingOrdered /\ ~S3MarkerListed)

\* What holds instead: the order and uniqueness, marker or not.
C20_ListingOrdered == S3Listed => S3ListingOrdered

\* The objects of the bucket below the prefix of the last list().
S3KeysBelowPrefix == {k \in DOMAIN s3last.was : startsWith(k, S3Prefix)}

S3Key == getObjectKey(s3cfg, s3last.path)
S3Sent == s3last.out.requests
S3Calls == [i \in 1..Len(S3Sent) |-> S3Sent[i].call]

\* C22: write fails with NotWritableDestinationError for a key ending in '/'
\* or when the object key + '/' exists; it sends at most one probe, before
\* the put, no put when it fails this way, and otherwise one put for the key.
C22_WriteProbesOnce ==
    s3last.op = "write" =>
        /\ S3Calls \in {<<>>, <<"headObject">>, <<"headObject", "putObject">>}
        /\ endsWith(S3Key, "/") =>
               (s3last.out.error = "NotWritableDestinationError" /\ S3Calls = <<>>)
        /\ (~endsWith(S3Key, "/") /\ s3last.fault # 1) =>
               /\ S3Sent[1] = S3Request("headObject", S3Key \o <<"/">>)
               /\ (S3Key \o <<"/">>) \in DOMAIN s3last.was =>
                      (s3last.out.error = "NotWritableDestinationError"
                          /\ S3Calls = <<"headObject">>)
               /\ (S3Key \o <<"/">>) \notin DOMAIN s3last.was =>
                      (S3Calls = <<"headObject", "putObject">>
                          /\ S3Sent[2] = S3Request("putObject", S3Key))
        /\ s3last.out.error = "NotWritableDestinationError" =>
               (s3last.out.errPath = s3last.path /\ s3last.out.bucket = s3last.was)
        /\ s3last.out.error = "" =>
               (S3Key \in DOMAIN s3last.out.bucket /\ s3last.out.bucket[S3Key] = S3NewBody)

\* write('d') where the marker d/ exists failed after its one probe.
C22_Witness ==
    /\ s3last.op = "write" /\ s3last.path = <<"d">>
    /\ (S3Key \o <<"/">>) \in DOMAIN s3last.was
    /\ s3last.out.error = "NotWritableDestinationError"
    /\ S3Calls = <<"headObject">>

\* C23: delete fails with NotAFileError for a key ending in '/' without a
\* request, probes the key before deleting, fails with NotFoundError when the
\* key is absent, deletes only after a successful probe, and leaves the
\* bucket as it was when it fails.
C23_DeleteProbesFirst ==
    s3last.op = "delete" =>
        /\ S3Calls \in {<<>>, <<"headObject">>, <<"headObject", "deleteObject">>}
        /\ endsWith(S3Key, "/") => (s3last.out.error = "NotAFileError" /\ S3Calls = <<>>)
        /\ ~endsWith(S3Key, "/") => S3Sent[1] = S3Request("headObject", S3Key)
        /\ (~endsWith(S3Key, "/") /\ S3Key \notin DOMAIN s3last.was /\ s3last.fault # 1) =>
               (s3last.out.error = "NotFoundError" /\ s3last.out.errPath = s3last.path
                   /\ S3Calls = <<"headObject">>)
        /\ Len(S3Sent) = 2 =>
               (S3Key \in DOMAIN s3last.was /\ S3Sent[2] = S3Request("deleteObject", S3Key))
        /\ s3last.out.error # "" => s3last.out.bucket = s3last.was
        /\ s3last.out.error = "" =>
               s3last.out.bucket = [k \in DOMAIN s3last.was \ {S3Key} |-> s3last.was[k]]

\* delete of a key the bucket does not hold failed with NotFoundError after
\* the probe, and nothing was deleted from a bucket that holds other objects.
C23_Witness ==
    /\ s3last.op = "delete" /\ s3last.fault = 0
    /\ S3Key \notin DOMAIN s3last.was
    /\ s3last.out.error = "NotFoundError"
    /\ S3Calls = <<"headObject">>
    /\ bucket = s3last.was /\ bucket # <<>>

\* The responses the last list() call has received, and whether one ends the
\* listing: not truncated, or without a next token.
PagingReceived == paging.raw.responses
FinalPage(response) ==
    ~response.IsTruncated \/ response.NextContinuationToken = NOTOKEN
FinalPageReturned ==
    paging.phase = "returned" /\ FinalPage(PagingReceived[Len(PagingReceived)])

\* The requests of list() so far: the first without a token, each later one
\* with the token of the page before it, at most one unanswered, and none
\* after a page that ends the listing.
PagingSequential ==
    /\ Len(paging.requests) - Len(PagingReceived) \in {0, 1}
    /\ paging.phase \in {"returned", "done"} => Len(paging.requests) = Len(PagingReceived)
    /\ \A i \in 1..Len(paging.requests) :
           /\ i = 1 => paging.requests[i].token = NOTOKEN
           /\ i > 1 =>
                  /\ paging.requests[i].token = PagingReceived[i - 1].NextContinuationToken
                  /\ ~FinalPage(PagingReceived[i - 1])
    /\ paging.phase = "done" =>
           /\ FinalPage(PagingReceived[Len(PagingReceived)])
           /\ paging.out.error = ""
           /\ paging.out.requests = paging.requests

\* C28: list requests its pages strictly one after another, with the token
\* of the page before, stops at the first page that is not truncated or has
\* no next token, and terminates whenever the backend returns such a page.
C28_SequentialPaging ==
    /\ []PagingSequential
    /\ FinalPageReturned ~> (paging.phase = "done")

\* A listing of three pages: tokens 2 and 1 came back and were sent on, the
\* third page was not truncated, and list has returned.
C28_Witness ==
    /\ paging.phase = "done"
    /\ Len(paging.requests) = 3
    /\ paging.requests[2].token = 2 /\ paging.requests[3].token = 1
    /\ ~PagingReceived[3].IsTruncated

\* What the callers of disk d can see: the outcome of read and of list for
\* every path.
MemSeen(m, d) ==
    [p \in MemPaths \cup MemListPaths |->
        [be \in MemBackendsOfLookup |->
            <<IF p \in MemPaths
              THEN [x \in {"err", "data"} |-> FSRead(VolumeOf(m, d), MemRootPath, p, be)[x]]
              ELSE <<>>,
              IF p \in MemListPaths
              THEN [x \in {"err", "listing"} |-> FSList(VolumeOf(m, d), MemRootPath, p, be)[x]]
              ELSE <<>>>>]]

\* The disk whose operation the step is: that of last', or for the end of a
\* stream the disk the stream was made on (0 when no disk has that volume).
MemActors ==
    IF mem'.last.op = "end"
    THEN {d \in 1..Len(mem.disks) : mem.disks[d].fs = mem.stream.fs}
    ELSE {mem'.last.disk}

\* (What is seen of a volume that is as it was needs no second look.)
C25_IsolationStep ==
    \A d \in 1..Len(mem.disks) :
        d \notin MemActors =>
            \/ VolumeOf(mem', d) = VolumeOf(mem, d)
            \/ MemSeen(mem', d) = MemSeen(mem, d)

\* Every disk has a volume, no two disks have the same, and a disk starts
\* with nothing but its root.
C25_OwnStore ==
    /\ \A d \in 1..Len(mem.disks) : mem.disks[d].fs \in 1..Len(mem.volumes)
    /\ \A d, e \in 1..Len(mem.disks) : mem.disks[d].fs = mem.disks[e].fs => d = e
    /\ mem.last.op \in {"new", "getDisk"} /\ mem.ops = 0 /\ mem.stream = NOMEMSTREAM =>
           VolumeOf(mem, mem.last.disk) = EmptyVolume

\* C25: every MemoryDisk has a store of its own, made when it is constructed,
\* and no write, createWriteStream (with the writes of its stream) or delete
\* of one disk changes what read or list give on another, be the disks made
\* by the caller or by one manager under two names.
C25_Isolation == []C25_OwnStore /\ [][C25_IsolationStep]_vars

\* Two disks of one manager, m1 and m2: /a was written on the first, and a
\* list of "/" on the second has just come back empty.
C25_Witness ==
    /\ Len(mem.disks) = 2
    /\ mem.registry["m1"] = 1 /\ mem.registry["m2"] = 2
    /\ <<"a">> \in DOMAIN VolumeOf(mem, 1)
    /\ mem.last.op = "list" /\ mem.last.disk = 2 /\ mem.last.path = SEP
    /\ mem.last.err = "" /\ mem.last.listing = <<>>

\* Every path the last operation passed to a primitive of the backend is the
\* root or below it, but for the paths of `spared`.
PrimsWithinRoot(spared) ==
    \A k \in 1..Len(last.prims) :
        \/ IsPrefix(NamesOf(rootIn), NamesOf(last.prims[k].path))
        \/ last.prims[k] \in spared

\* C26 as stated: read, createReadStream, write, createWriteStream, delete
\* and list pass to the primitives of the backend only paths that are the
\* root or a descendant of the root, whatever the virtual path: "/", ".",
\* paths of ".." alone.
C26_PrimitivesContained == PrimsWithinRoot({})

\* C26 but for the mkdirp of a write or createWriteStream whose full path is
\* the root itself, which is called on the directory above the root.
C26_PrimitivesContainedButMkdirpOfRoot ==
    PrimsWithinRoot(IF FullPathOf(rootIn, last.path) = rootIn
                       /\ last.op \in {"write", "createWriteStream"}
                    THEN {Prim("mkdirp", dirname(rootIn))}
                    ELSE {})

\* write("../..") on the disk rooted at /r called mkdirp on "/".
C26_MkdirpAboveRoot ==
    /\ rootIn = <<"", "r">>
    /\ last.op = "write" /\ last.path = <<"..", "..">>
    /\ last.prims[1] = Prim("mkdirp", SEP)
    /\ last.err = "NotWritableDestinationError"

\* Two callers whose calls resolve to one name.
SameResolved(c, d) ==
    /\ ResolvedFor(callers[c].name).found
    /\ ResolvedFor(callers[c].name) = ResolvedFor(callers[d].name)

Got(c) == callers[c].pc = "returned" /\ callers[c].error = ""

\* C27 as stated, for the calls it is about: of two first-time calls of
\* getDisk for one resolved name that wait to run at the same time, each
\* constructs a Disk when it runs (and the later registration replaces the
\* earlier).
C27_RacedCallsConstructStep ==
    \A c \in Callers :
        (callers[c].pc = "called" /\ callers'[c].pc = "returned"
            /\ callers[c].raced /\ callers'[c].error = "") =>
            callers'[c].constructed

C27_ConcurrentCallsBothConstruct == [][C27_RacedCallsConstructStep]_vars

\* No Disk that was constructed has been replaced in the registry, the
\* callers of one resolved name hold one instance, and of two raced calls
\* at most one constructed.
C27_NothingDiscarded ==
    /\ \A i \in 1..Len(made) :
           made[i].name \in DOMAIN disks /\ disks[made[i].name] = made[i].id
    /\ \A c, d \in Callers :
           (Got(c) /\ Got(d) /\ SameResolved(c, d)) =>
               /\ callers[c].id = callers[d].id
               /\ callers[c].id = disks[ResolvedFor(callers[c].name).name]
               /\ (c # d => ~(callers[c].constructed /\ callers[d].constructed))

\* A call that runs when its resolved name is registered constructs nothing
\* and returns the registered instance, first-time call or not.
C27_RunStep ==
    \A c \in Callers :
        (callers[c].pc = "called" /\ callers'[c].pc = "returned"
            /\ ResolvedFor(callers[c].name).found
            /\ ResolvedFor(callers[c].name).name \in DOMAIN disks) =>
            /\ made' = made /\ disks' = disks
            /\ ~callers'[c].constructed
            /\ callers'[c].id = disks[ResolvedFor(callers[c].name).name]

\* C27, corrected: a call of getDisk runs from its cache check to its
\* registration with no other call in between, so of two first-time calls
\* for one resolved name that wait at the same time only the one that runs
\* first constructs a Disk; the other returns that instance; no constructed
\* instance is replaced or discarded.
C27_GetDiskAtomic == []C27_NothingDiscarded /\ [][C27_RunStep]_vars

\* Two calls, getDisk('default') and getDisk('foo'), both first-time calls
\* for the resolved name foo and both waiting before either ran, have
\* returned the same instance, which only the first of them constructed.
C27_Witness ==
    /\ Got(1) /\ Got(2)
    /\ callers[1].name = "default" /\ callers[2].name = "foo"
    /\ callers[1].raced /\ callers[2].raced
    /\ callers[1].id = callers[2].id
    /\ callers[1].constructed /\ ~callers[2].constructed
    /\ Len(made) = 1

\* The events of `froms` that end a pipe: finish and close, and error.
TerminalEvents == ResolveEvents \cup RejectEvents
TerminalOf(froms) ==
    {k \in 1..Len(pipe.events) :
        pipe.events[k].from \in froms /\ pipe.events[k].event \in TerminalEvents}

\* What the first terminal event of `froms` asks for.
FirstTerminal(froms) ==
    LET k == CHOOSE i \in TerminalOf(froms) : \A j \in TerminalOf(froms) : i <= j
        e == pipe.events[k]
    IN  IF e.event \in RejectEvents THEN [state |-> "rejected", value |-> e.error]
        ELSE [state |-> "resolved", value |-> e.event]

\* The promise is settled at most once, is pending until a terminal event
\* of `froms`, and from then on is what the first such event asks for.
SettledByFirst(froms) ==
    /\ pipe.settles <= 1
    /\ pipe.settles = 0 <=> pipe.outcome = PENDING
    /\ IF TerminalOf(froms) = {} THEN pipe.outcome = PENDING
       ELSE pipe.outcome = FirstTerminal(froms)

\* C29 as stated: pipeStreams settles once, with the first terminal event:
\* resolved with the name of a finish or close, rejected with the error of
\* an error of the source or of the sink; later events change nothing; and
\* once a terminal event has occurred the promise is settled.
C29_SettlesOnceWithFirstEvent ==
    /\ []SettledByFirst({"source", "sink"})
    /\ (TerminalOf({"source", "sink"}) # {}) ~> (pipe.outcome # PENDING)

\* C29 for the events of the sink alone: these settle the promise as stated.
C29_SettlesOnceWithFirstSinkEvent ==
    /\ []SettledByFirst({"sink"})
    /\ (TerminalOf({"sink"}) # {}) ~> (pipe.outcome # PENDING)

\* The source failed and the promise is pending.
C29_SourceErrorUnheard ==
    /\ pipe.source = "errored"
    /\ pipe.events[Len(pipe.events)].from = "source"
    /\ pipe.outcome = PENDING

\* The source failed, the sink was then destroyed, and the promise is
\* resolved with "close".
C29_SourceErrorResolved ==
    /\ pipe.source = "errored"
    /\ pipe.outcome = [state |-> "resolved", value |-> "close"]

\* The call in hand has a temp file.
TempMade == tmp.call.phase \notin {"none", "creating"} /\ tmp.call.name # NOFILE

TempSettled == tmp.call.phase = "settled"

\* One file per call, one call of execute with its name, the file there as
\* long as execute runs, and Disk.withTempFile skipping the cleanup exactly
\* when it has no callback.
TempOnce ==
    /\ tmp.call.phase # "none" =>
           /\ tmp.call.executes <= 1 /\ tmp.call.callbacks <= 1
           /\ tmp.call.via = "disk" => tmp.call.skipCleanup = ~tmp.call.hasExecute
    /\ TempMade =>
           /\ tmp.call.executes = 1
           /\ tmp.call.name = tmp.calls
           /\ \A f \in tmp.files : f <= tmp.calls
           /\ tmp.call.phase \in {"download", "execute"} => tmp.call.name \in tmp.files

\* With `states` the ways of settling that count: once the promise has
\* settled in one of them after the file was made, the file is gone unless
\* skipCleanup was set, and is there if it was.
TempCleaned(states) ==
    (TempSettled /\ TempMade /\ tmp.call.state \in states) =>
        (tmp.call.name \in tmp.files <=> tmp.call.skipCleanup)

\* C30 as stated: withTempFile creates one temp file, calls execute once with
\* its path and, unless skipCleanup is true, has removed the file when its
\* promise settles, whether execute succeeded or failed; Disk.withTempFile
\* skips the cleanup exactly when no callback is given.
C30_TempFileCleanedOnEveryPath == TempOnce /\ TempCleaned({"resolved", "rejected"})

\* C30 for the calls whose execute succeeded.
C30_TempFileCleanedOnSuccess == TempOnce /\ TempCleaned({"resolved"})

\* disk.withTempFile(path, execute) rejected with NotFoundError (the path is
\* not on the disk) and the temp file is still there.
C30_TempFileLeft ==
    /\ TempSettled /\ tmp.call.via = "disk" /\ tmp.call.hasExecute
    /\ tmp.call.state = "rejected" /\ tmp.call.error = "NotFoundError"
    /\ ~tmp.call.skipCleanup
    /\ tmp.call.name \in tmp.files

====
